---- MODULE Spec2Model ----
(***************************************************************************)
(* Model of zoom-recording-downloader.py: the completion ledger, the       *)
(* recording processor run by a bounded worker pool, and the ledger        *)
(* maintenance done by the verification (auto-fix) and restore workflows.  *)
(***************************************************************************)
EXTENDS Integers, Sequences, FiniteSets, TLC

\* ------------------------------------------------------------------ bounds
\* Longest catalog listing handed to one pool.
MaxListing == 2
\* Number of consecutive synchronisation runs (process starts) explored.
MaxRuns == 2
\* Dates handed to per_delta are days 0..MaxDate; its delta is 1..MaxDelta days.
MaxDate == 4
MaxDelta == 3
\* Calls of log_verification_result explored.
MaxCalls == 3
\* Pool size: Processing.max_workers, by default.
MAX_WORKERS == 3

\* Retry budget the backends read from their configuration, by default.
max_retries == 3

\* ------------------------------------------------------------ the catalog
\* A uuid is a string, modelled as its sequence of characters.
Uuids == {<<"x">>, <<"y">>, <<"z">>}

\* recording["recording_files"] reduced to each file's file_size: x has two
\* size-bearing files, y one file without a size, z no files at all.
RecordingFiles(uuid) ==
    CASE uuid = <<"x">> -> <<1000, 2000>>
      [] uuid = <<"y">> -> <<0>>
      [] OTHER -> <<>>

\* A variant that lets a recording without files through.
GetDownloadsNeverRaises(uuid) == FALSE

\* get_downloads raises when the recording has no recording_files.
GetDownloadsRaises(uuid) == Len(RecordingFiles(uuid)) = 0

\* The files of the catalog: <<uuid, index>>.
CatalogFiles ==
    UNION {{<<u, i>> : i \in 1..Len(RecordingFiles(u))} : u \in Uuids}

\* The listings list_recordings may return: it does not deduplicate, so a
\* uuid may occur more than once.
Listings == UNION {[1..n -> Uuids] : n \in 1..MaxListing}

\* ------------------------------------------------------- the ledger file
Whitespace == {" ", "\n", "\t", "\r"}

RECURSIVE LStrip(_)
LStrip(s) ==
    IF s # <<>> /\ Head(s) \in Whitespace THEN LStrip(Tail(s)) ELSE s

RECURSIVE RStrip(_)
RStrip(s) ==
    IF s # <<>> /\ s[Len(s)] \in Whitespace
    THEN RStrip(SubSeq(s, 1, Len(s) - 1))
    ELSE s

\* str.strip()
Strip(s) == RStrip(LStrip(s))

\* Iterating a text file: the lines, each with its newline.
RECURSIVE FileLines(_)
FileLines(content) ==
    IF content = <<>> THEN <<>>
    ELSE LET nl == {i \in 1..Len(content) : content[i] = "\n"}
         IN  IF nl = {} THEN <<content>>
             ELSE LET k == CHOOSE i \in nl : \A j \in nl : i <= j
                  IN  <<SubSeq(content, 1, k)>>
                        \o FileLines(SubSeq(content, k + 1, Len(content)))

\* The ids load_completed_meeting_ids adds: line.strip() for each line.
LoadedIds(content) ==
    LET lines == FileLines(content)
    IN  {Strip(lines[i]) : i \in 1..Len(lines)}

\* How many lines of the file hold the id.
LineCount(content, id) ==
    LET lines == FileLines(content)
    IN  Cardinality({i \in 1..Len(lines) : Strip(lines[i]) = id})

\* A variant that writes the id without the newline.
LogLineBare(recording_id) == recording_id

\* fd.write(f"{recording_id}\n")
LogLine(recording_id) == recording_id \o <<"\n">>

\* The file written line by line from a sequence of ids.
RECURSIVE WriteLines(_)
WriteLines(ids) ==
    IF ids = <<>> THEN <<>> ELSE LogLine(Head(ids)) \o WriteLines(Tail(ids))

\* The orders in which iterating a set may yield its elements.
Orders(S) ==
    {o \in [1..Cardinality(S) -> S] : \A i, j \in DOMAIN o : i # j => o[i] # o[j]}

\* What open(COMPLETED_MEETING_IDS_LOG, 'w') and the loop of writes may leave
\* in the file: all lines; the old content when open fails; a prefix of the
\* lines when a write fails after the file was truncated.
RewriteResults(old, ids) ==
    {WriteLines(ids), old}
      \cup {WriteLines(SubSeq(ids, 1, k)) : k \in 0..(Len(ids) - 1)}

\* A variant of the load that reads the file whatever the setting.
LoadWhenDisabled(enabled, ids, content) == ids \cup LoadedIds(content)

\* A variant of the load that reads nothing.
LoadNothing(enabled, ids, content) == ids

\* load_completed_meeting_ids: nothing when the ledger is disabled.
LoadCompletedMeetingIds(enabled, ids, content) ==
    IF enabled THEN ids \cup LoadedIds(content) ELSE ids

\* ------------------------------------------------------------------ state
VARIABLES
    \* configuration, fixed for a process
    USE_COMPLETED_LOG, storage, VERIFY_ON_DOWNLOAD, VERIFY_ON_UPLOAD,
    DELETE_FROM_ZOOM,
    \* the command line's mode: "sync", "verify" or "restore"
    mode,
    \* the ledger: in-memory set, backing file (its characters), lock holder
    COMPLETED_MEETING_IDS, completed_log, completed_log_lock,
    \* lines appended to failed-uploads.log during the run: <<task, file index>>
    failed_log,
    \* the pool of one run: the listing and, per submitted task, its position,
    \* file index, all_files_success flag, the current file's trace, outcome
    run, recordings, pc, idx, all_files_success, ctx, result,
    \* main's counters of the outcomes collected from the pool
    completed, failed,
    \* history of a task until its outcome is collected: what went wrong, the
    \* files whose download was attempted, whether it appended to the ledger,
    \* whether it called the deletion
    events, attempted, saved, zoom_deleted,
    \* the answer to the task's deletion request and what
    \* delete_recording_from_zoom returned for it
    deletion,
    \* history of a run: the files downloaded, the uuids one processing
    \* of which got through all its downloads, the ledger file when the run
    \* started, and the uuids every processing of which failed a download in
    \* the previous run
    downloaded, cleanDl, logAtStart, failedPrev,
    \* ledger maintenance (auto-fix, restore reconciliation): position and the
    \* uuids being removed
    mpc, affected,
    \* whether SIGINT has arrived during the run
    cancelled,
    \* per_delta: its arguments, its local curr, the pairs yielded so far and
    \* the generator's position
    start, end, delta, curr, yielded, gpc,
    \* main's loop over the users and list_recordings: the user whose
    \* recordings are being listed, the users list_recordings was called for,
    \* and the date of each recording of the catalog
    user, visited, rec_date,
    \* what the queries of the current call of list_recordings came to
    query_answers,
    \* the verification log: whether it is configured, the holder of its
    \* lock, the file, and per worker its copy of the document, its position
    \* in log_verification_result and the call's arguments; the number of
    \* calls made and the calls that have returned
    VERIFICATION_LOG, verification_log_lock, verification_file,
    verification_data, vpc, vcall, vcalls, vlogged,
    \* runs with a date range: the settings auto_date_range, start_date and
    \* end_date, the global date range, the marker file, the day, main's
    \* position, how its loop over the users ended, the number of processes
    \* started, the reads and writes of the marker in the run, the marker
    \* when the run started, the uuids written to the ledger and the uuids
    \* the previous run failed
    AUTO_DATE_RANGE, start_date, end_date, RECORDING_START_DATE,
    RECORDING_END_DATE, last_run_log, today, apc, ending, aruns, marker_reads,
    marker_writes, marker_before, processed, failed_before,
    \* S3Client.upload_file: its position, the configured max_retries and
    \* retry_delay, the loop's attempt, the outcomes of the attempts made,
    \* the delays slept, the lines appended to the failed-uploads log and
    \* the value returned
    s3pc, s3_max_retries, retry_delay, attempt, s3_trace, s3_sleeps,
    s3_lines, s3_returned,
    \* delete_verified_recordings: whether --delete-verified was read as set,
    \* the answer to its prompt, the uuids delete_recording_from_zoom was
    \* called for and those it returned True for
    delete_verified, purge_response, purge_called, purge_deleted,
    \* restore_deleted_workflow: the recordings the trash listings returned,
    \* the start_time of each recording, the date range of the call and the
    \* answer to the restore prompt
    all_trash_recordings, start_time, from_date, to_date, restore_response,
    \* build_active_recordings_lookup: its position, the user of the next
    \* turn of its loop, its locals original_start and original_end, its
    \* arguments from_date and to_date, the global date range when it was
    \* called, whether a query raised, and the uuids of recordings_by_uuid
    lpc, luser, original_start, original_end, lookup_from, lookup_to,
    range_before, lookup_raised, recordings_by_uuid,
    \* the verification pass: what it found for each ledger entry, the
    \* recordings it lists as fully verified, whether verification-report.log
    \* was written
    scan, fully_verified, report,
    \* the operator's answer to the last confirmation prompt, and how the last
    \* rewrite of the ledger file ended
    response, rewrote,
    \* restore_deleted_workflow: the uuids restored, and those whose restore
    \* failed
    restored_uuids, failed_uuids,
    \* the answers to the restore requests, by uuid
    restore_responses

confVars == <<USE_COMPLETED_LOG, storage, VERIFY_ON_DOWNLOAD, VERIFY_ON_UPLOAD,
              DELETE_FROM_ZOOM, mode>>
ledgerVars == <<COMPLETED_MEETING_IDS, completed_log, completed_log_lock>>
taskVars == <<pc, idx, all_files_success, ctx, result, completed, failed>>
histVars == <<events, attempted, saved, zoom_deleted, deletion>>
runVars == <<run, recordings, downloaded, cleanDl, logAtStart, failedPrev>>
maintVars == <<mpc, affected>>
listVars == <<user, visited, rec_date, query_answers>>
verifVars == <<VERIFICATION_LOG, verification_log_lock, verification_file,
               verification_data, vpc, vcall, vcalls, vlogged>>
autoVars == <<AUTO_DATE_RANGE, start_date, end_date, RECORDING_START_DATE,
              RECORDING_END_DATE, last_run_log, today, apc, ending, aruns,
              marker_reads, marker_writes, marker_before, processed,
              failed_before>>
s3Vars == <<s3pc, s3_max_retries, retry_delay, attempt, s3_trace, s3_sleeps,
            s3_lines, s3_returned>>
purgeVars == <<delete_verified, purge_response, purge_called, purge_deleted>>
trashVars == <<all_trash_recordings, start_time, from_date, to_date,
               restore_response>>
lookupVars == <<lpc, luser, original_start, original_end, lookup_from,
                lookup_to, range_before, lookup_raised, recordings_by_uuid>>
extraVars == <<autoVars, s3Vars, purgeVars, trashVars, lookupVars>>
deltaVars == <<start, end, delta, curr, yielded, gpc, listVars, verifVars,
               extraVars>>
scanVars == <<scan, fully_verified, report, response, rewrote, restored_uuids,
              failed_uuids, restore_responses>>
vars == <<confVars, ledgerVars, failed_log, taskVars, histVars, runVars,
          maintVars, cancelled, deltaVars, scanVars>>

\* ------------------------------------------------------- the Zoom API
\* What a request to the Zoom API may come to: requests raises, or a
\* response with one of these status codes arrives.
StatusCodes == {200, 204, 404, 500}
ZoomResponses ==
    {[raised |-> TRUE, status_code |-> 0]}
      \cup {[raised |-> FALSE, status_code |-> c] : c \in StatusCodes}

\* A variant in which a recording that is not found counts as a failure.
DeleteStrict(raised, status_code) == ~raised /\ status_code = 204

\* delete_recording_from_zoom: True for 204 and for 404; an exception is
\* caught.
delete_recording_from_zoom(raised, status_code) ==
    IF raised THEN FALSE
    ELSE IF status_code = 204 THEN TRUE
    ELSE IF status_code = 404 THEN TRUE
    ELSE FALSE

\* A variant in which a recording that is not found counts as restored.
RestoreLenient(raised, status_code) ==
    ~raised /\ status_code \in {204, 404}

\* restore_recording_from_zoom: True for 204 alone; an exception is caught.
restore_recording_from_zoom(raised, status_code) ==
    IF raised THEN FALSE
    ELSE IF status_code = 204 THEN TRUE
    ELSE IF status_code = 404 THEN FALSE
    ELSE FALSE

\* No deletion was requested.
NoDeletion == [raised |-> FALSE, status_code |-> 0, returned |-> FALSE]

\* Holders of completed_log_lock: nobody, a pool task (its index), or main.
Free == 0
MainThread == 99
Tasks == DOMAIN recordings

NoCtx == [dl |-> "none", lv |-> "none", up |-> "none", rv |-> "none",
          removed |-> FALSE, attempts |-> 0, before |-> TRUE]

\* The per-task state of a freshly submitted listing.
Fresh(listing, v) == [t \in DOMAIN listing |-> v]

\* Ledger files a first run may find.
InitialLogs == {<<>>}

\* Ledger files the verification and restore workflows may find: the lines
\* earlier runs appended, in any order.
MaintLogs == UNION {{WriteLines(o) : o \in Orders(S)} : S \in SUBSET Uuids}

\* ------------------------------------------------- the last-run marker
\* The days the model's clock takes.
Days == 0..MaxDate
NoDate == 0 - 1

Max(a, b) == IF a > b THEN a ELSE b

\* last-run.log: absent, holding something datetime.fromisoformat rejects, or
\* holding the time of a run (its day).
MarkerFiles(now) ==
    {[state |-> "absent", day |-> NoDate], [state |-> "corrupt", day |-> NoDate]}
      \cup {[state |-> "ok", day |-> d] : d \in 0..now}

\* get_last_run_time: the parsed timestamp, or None.
get_last_run_time(file) == IF file.state = "ok" THEN file.day ELSE NoDate

\* The date range the module's top level sets when the process starts:
\* the configured dates, or the last 30 days up to today.
ConfiguredStart(configured, now) ==
    IF configured # NoDate THEN configured ELSE Max(0, now - 30)

ConfiguredEnd(configured, now) ==
    IF configured # NoDate THEN configured ELSE now

\* calculate_auto_date_range: the start date of the run.
AutoStart(auto, last_run, configured) ==
    IF ~auto THEN configured
    ELSE IF last_run # NoDate THEN last_run
    ELSE configured

\* calculate_auto_date_range: the end date of the run.
AutoEnd(auto, last_run, configured, now) ==
    IF ~auto THEN configured
    ELSE IF last_run # NoDate THEN now
    ELSE configured

\* How main's loop over the users ends: it runs through, an exception leaves
\* main (a fatal abort), or SIGINT raises SystemExit.
RunEndings == {"through", "abort", "signal"}

\* A variant that reaches the end of main however the loop ended.
ReachesEndAlways(how) == TRUE

\* Whether main gets to the statements after its loop over the users.
ReachesEnd(how) == how = "through"

\* The recordings a run lists: those made by now and dated inside its date
\* range.
InWindow(from, to, now) ==
    {u \in Uuids : rec_date[u] <= now /\ from <= rec_date[u] /\ rec_date[u] <= to}

\* No run with a date range is under way.
AutoIdle ==
    /\ AUTO_DATE_RANGE = FALSE
    /\ start_date = 0
    /\ end_date = 0
    /\ RECORDING_START_DATE = 0
    /\ RECORDING_END_DATE = 0
    /\ last_run_log = [state |-> "absent", day |-> NoDate]
    /\ today = 0
    /\ apc = "off"
    /\ ending = "none"
    /\ aruns = 0
    /\ marker_reads = 0
    /\ marker_writes = 0
    /\ marker_before = [state |-> "absent", day |-> NoDate]
    /\ processed = {}
    /\ failed_before = {}

\* ------------------------------------------------- S3Client.upload_file
\* What one attempt comes to: the upload succeeds, boto3 raises ClientError,
\* or something else raises (os.path.getsize, a connection error).
AttemptOutcomes == {"ok", "ClientError", "Exception"}

\* A variant that retries after the last attempt too.
RetriesAfterLast(n, retries) == n < retries

\* The test of both except branches: another attempt follows.
Retries(n, retries) == n < retries - 1

\* No upload to S3 is under way.
S3Idle ==
    /\ s3pc = "off"
    /\ s3_max_retries = max_retries
    /\ retry_delay = 0
    /\ attempt = 0
    /\ s3_trace = <<>>
    /\ s3_sleeps = <<>>
    /\ s3_lines = 0
    /\ s3_returned = "none"

\* delete_verified_recordings has not run.
PurgeIdle ==
    /\ purge_response = "none"
    /\ purge_called = {}
    /\ purge_deleted = {}

\* Nothing of the other specifications is under way.
\* No trash was listed: every recording is of day 0, the day of the range.
TrashDatesIdle ==
    /\ start_time = [u \in Uuids |-> 0]
    /\ from_date = 0
    /\ to_date = 0
    /\ restore_response = "none"

TrashIdle ==
    /\ all_trash_recordings = {}
    /\ TrashDatesIdle

\* build_active_recordings_lookup is not called.
LookupIdle ==
    /\ lpc = "off"
    /\ luser = 0
    /\ original_start = 0
    /\ original_end = 0
    /\ lookup_from = 0
    /\ lookup_to = 0
    /\ range_before = <<0, 0>>
    /\ lookup_raised = FALSE
    /\ recordings_by_uuid = {}

ExtrasIdle ==
    /\ AutoIdle
    /\ S3Idle
    /\ PurgeIdle
    /\ TrashIdle
    /\ LookupIdle

\* ------------------------------------- the verification log: its state
\* The threads that call log_verification_result: the pool's workers.
VWorkers == 1..MAX_WORKERS

\* The JSON document without any recording.
EmptyDocument == [u \in {} |-> <<>>]

\* verification-log.json before the first call: absent, not parsable, or a
\* document written by an earlier run.
InitialVerificationFiles ==
    {[state |-> "absent", doc |-> EmptyDocument],
     [state |-> "corrupt", doc |-> EmptyDocument],
     [state |-> "ok", doc |-> EmptyDocument],
     [state |-> "ok", doc |-> (<<"x">> :> <<[file_id |-> 1, n |-> 0]>>)]}

\* The arguments of a call: a recording that has files and one of its files.
\* n numbers the calls (the entry's timestamp), worker is the caller.
VerificationCalls(w, n) ==
    UNION {{[uuid |-> u, file_id |-> f, n |-> n, worker |-> w] :
               f \in DOMAIN RecordingFiles(u)} : u \in Uuids}

NoCall == [uuid |-> <<>>, file_id |-> 0, n |-> 0, worker |-> 0]

\* with verification_log_lock: the lock is taken when nobody holds it.
LockIgnored(holder) == TRUE

LockAvailable(holder) == holder = Free

\* json.load of the file, or {} when it is absent or cannot be parsed.
LoadVerificationData(file) ==
    IF file.state = "ok" THEN file.doc ELSE EmptyDocument

\* The entry of the call appended to the files of its recording.
AppendEntry(data, call) ==
    LET entry == [file_id |-> call.file_id, n |-> call.n]
    IN  IF call.uuid \in DOMAIN data
        THEN [data EXCEPT ![call.uuid] = Append(@, entry)]
        ELSE data @@ (call.uuid :> <<entry>>)

\* No worker is logging and the log is not configured.
VerifLogIdle ==
    /\ VERIFICATION_LOG = FALSE
    /\ verification_log_lock = Free
    /\ verification_file = [state |-> "absent", doc |-> EmptyDocument]
    /\ verification_data = [w \in VWorkers |-> EmptyDocument]
    /\ vpc = [w \in VWorkers |-> "idle"]
    /\ vcall = [w \in VWorkers |-> NoCall]
    /\ vcalls = 0
    /\ vlogged = {}

\* No listing is under way.
ListingIdle ==
    /\ user = 0
    /\ visited = {}
    /\ rec_date = [u \in Uuids |-> 0]
    /\ query_answers = <<>>

\* No call of per_delta is under way.
GeneratorIdle ==
    /\ start = 0
    /\ end = 0
    /\ delta = 1
    /\ curr = 0
    /\ yielded = <<>>
    /\ gpc = "off"
    /\ ListingIdle

\* No ledger entry has been looked at.
NoScan == [u \in {} |-> "none"]

\* Settings no step reads take one value, which stands for all of them: the
\* verification and restore modes read neither the verification nor the
\* deletion settings, the restore mode asks for no storage backend, and
\* with local storage there is no upload whose size could be checked.
UnreadConfig ==
    /\ mode # "sync" =>
          VERIFY_ON_DOWNLOAD /\ VERIFY_ON_UPLOAD /\ ~DELETE_FROM_ZOOM
    /\ mode = "restore" => storage = "local"
    /\ storage = "local" => VERIFY_ON_UPLOAD

\* main() up to its mode's first step. Synchronisation: the storage choice,
\* load_completed_meeting_ids, and the listing submitted to the pool. The
\* verification and restore modes start with the module's empty set and load
\* the ledger later.
InitProgram ==
    /\ USE_COMPLETED_LOG \in BOOLEAN
    /\ storage \in {"local", "gdrive", "s3"}
    /\ VERIFY_ON_DOWNLOAD \in BOOLEAN
    /\ VERIFY_ON_UPLOAD \in BOOLEAN
    /\ DELETE_FROM_ZOOM \in BOOLEAN
    /\ mode \in {"sync", "verify", "restore"}
    /\ delete_verified = FALSE
    /\ UnreadConfig
    /\ completed_log \in MaintLogs
    /\ COMPLETED_MEETING_IDS =
           IF mode = "sync"
           THEN LoadCompletedMeetingIds(USE_COMPLETED_LOG, {}, completed_log)
           ELSE {}
    /\ completed_log_lock = Free
    /\ failed_log = {}
    /\ run = 1
    /\ recordings \in (IF mode = "sync" THEN Listings ELSE {<<>>})
    /\ pc = Fresh(recordings, "queued")
    /\ idx = Fresh(recordings, 0)
    /\ all_files_success = Fresh(recordings, TRUE)
    /\ ctx = Fresh(recordings, NoCtx)
    /\ result = Fresh(recordings, "none")
    /\ completed = 0
    /\ failed = 0
    /\ events = Fresh(recordings, {})
    /\ attempted = Fresh(recordings, {})
    /\ saved = Fresh(recordings, FALSE)
    /\ zoom_deleted = Fresh(recordings, FALSE)
    /\ deletion = Fresh(recordings, NoDeletion)
    /\ downloaded = {}
    /\ cleanDl = {}
    /\ logAtStart = completed_log
    /\ failedPrev = {}
    /\ mpc = IF mode = "sync" THEN "off" ELSE "start"
    /\ affected = {}
    /\ cancelled = FALSE
    /\ GeneratorIdle
    /\ VerifLogIdle
    /\ AutoIdle
    /\ S3Idle
    /\ PurgeIdle
    /\ LookupIdle
    /\ scan = NoScan
    /\ fully_verified = {}
    /\ report = FALSE
    /\ response = "none"
    /\ rewrote = "none"
    /\ restored_uuids = {}
    /\ failed_uuids = {}
    /\ restore_responses = NoScan

\* The state main starts in: in restore mode the trash listings may return
\* any recordings, here all of the one day the range covers.
Init ==
    /\ InitProgram
    /\ mode = "sync" => completed_log \in InitialLogs
    /\ all_trash_recordings \in
           (IF mode = "restore" THEN SUBSET Uuids ELSE {{}})
    /\ TrashDatesIdle

\* --------------------------------------------------- process_recording
\* The skip test of process_recording.
AlreadyCompleted(enabled, ids, recording_id) ==
    enabled /\ recording_id \in ids

\* A variant in which the last file decides.
MarkFileLastWins(prev, fileOk) == fileOk

\* all_files_success after one file: cleared on failure, never set again.
MarkFile(prev, fileOk) == IF fileOk THEN prev ELSE FALSE

Running == {t \in Tasks : pc[t] \notin {"queued", "done", "collected"}}

\* The steps of a worker between the skip test and the ledger, the append to
\* the ledger file once the lock is held, and the collection of the outcome
\* read and write nothing another worker reads during the run: the shared
\* set is read by the skip test and written by COMPLETED_MEETING_IDS.add
\* alone, and the lock serialises the appends. Such a step commutes with
\* every step of another worker, so it is taken before any other worker
\* moves: the interleavings of the steps on shared state are all kept.
NoStepPending ==
    \A s \in Tasks :
       pc[s] \notin {"download", "file_done", "save_write", "delete", "done"}

Finish(t, res) ==
    /\ pc' = [pc EXCEPT ![t] = "done"]
    /\ result' = [result EXCEPT ![t] = res]

\* A pool thread takes the next submitted task and runs process_recording up
\* to its first file: the skip test, then get_downloads.
StartRecording(t) ==
    /\ mode = "sync"
    /\ NoStepPending
    /\ pc[t] = "queued"
    /\ \A s \in Tasks : s < t => pc[s] # "queued"
    /\ Cardinality(Running) < MAX_WORKERS
    /\ IF AlreadyCompleted(USE_COMPLETED_LOG, COMPLETED_MEETING_IDS, recordings[t])
       THEN Finish(t, "True") /\ UNCHANGED idx
       ELSE IF GetDownloadsRaises(recordings[t])
            THEN Finish(t, "False") /\ UNCHANGED idx
            ELSE /\ pc' = [pc EXCEPT ![t] = "download"]
                 /\ idx' = [idx EXCEPT ![t] = 1]
                 /\ UNCHANGED result
    /\ UNCHANGED <<confVars, deltaVars, scanVars, cancelled,
                   ledgerVars, failed_log, all_files_success, ctx,
                   completed, failed, histVars, runVars, maintVars>>

\* download_recording: one HTTP request, streamed to disk. It returns True,
\* returns False (an exception while streaming) or raises (requests.get fails).
DownloadOutcomes == {"ok", "false", "raise"}
DownloadRecording(outcome) == [result |-> outcome, attempts |-> 1]

\* The sizes the downloaded file may have on disk.
ActualSizes(expected_size) ==
    IF expected_size > 0 THEN {expected_size, expected_size - 1} ELSE {0, 1}

\* A variant that only looks whether the file is there.
VerifyPresenceOnly(exists, actual_size, expected_size, oserror) ==
    IF exists THEN "verified" ELSE "missing"

verify_local_file_size(exists, actual_size, expected_size, oserror) ==
    IF ~exists THEN "missing"
    ELSE IF oserror THEN "error"
    ELSE IF actual_size = expected_size THEN "verified"
    ELSE "mismatch"

\* A variant that checks files without a size too.
LocalCheckAlways(verify, expected_size) == verify

\* Whether the local size check runs for a downloaded file.
LocalCheckRuns(verify, expected_size) == verify /\ expected_size > 0

ExpectedSize(t) == RecordingFiles(recordings[t])[idx[t]]

\* ------------------------------------------------------ storage backends
\* GoogleDriveClient.upload_file: the backend reports success or failure, or
\* the call raises.
GDriveUploadOutcomes == {"true", "false", "raise"}

\* S3Client.upload_file(self, local_path, folder_name, filename) is called
\* with a fourth argument, worker_id: the call raises TypeError before the
\* method's body runs.
S3UploadOutcomes == {"raise"}

UploadOutcomes(backend) ==
    CASE backend = "gdrive" -> GDriveUploadOutcomes
      [] backend = "s3" -> S3UploadOutcomes
      [] OTHER -> {"none"}

\* verify_file_size of the backend: a status, or the call raises.
VerifyFileSizeOutcomes == {"verified", "mismatch", "missing", "error", "raise"}

\* Whether the upload's size check runs.
UploadCheckRuns(up, verify, expected_size) ==
    up = "true" /\ verify /\ expected_size > 0

\* upload_success after the upload and its size check.
UploadSuccess(up, rv) == up = "true" /\ rv # "mismatch"

\* Whether the upload branch ended without an exception.
NoException(up, rv) == up # "raise" /\ rv # "raise"

\* The cleanup test: the local copy is removed.
RemovesLocal(upload_success, exists) == upload_success /\ exists

\* What the upload branch of one iteration does with a downloaded file: the
\* upload, its size check and the cleanup of the local copy.
UploadTraces(backend, verify, expected_size) ==
    {[up |-> x[1], rv |-> x[2],
      removed |-> NoException(x[1], x[2])
                    /\ RemovesLocal(UploadSuccess(x[1], x[2]), x[3])] :
        x \in {y \in UploadOutcomes(backend)
                       \X (VerifyFileSizeOutcomes \cup {"none"}) \X BOOLEAN :
                 (y[2] # "none") = UploadCheckRuns(y[1], verify, expected_size)}}

\* What the local size check may report for a downloaded file.
LocalTraces(verify, expected_size) ==
    IF LocalCheckRuns(verify, expected_size)
    THEN {verify_local_file_size(x[1], x[2], expected_size, x[3]) :
            x \in BOOLEAN \X ActualSizes(expected_size) \X BOOLEAN}
    ELSE {"none"}

\* A variant in which no status of the local check ends the iteration.
ShortCircuitsNever(status) == FALSE

\* The status of the local size check after which the iteration is left with
\* continue: the mismatch.
ShortCircuits(status) == status = "mismatch"

\* The traces of one iteration of the loop over the recording's files:
\* format_filename, download_recording and the local size check; then, unless
\* the download failed or the check reported a mismatch, the upload branch.
FileTraces(backend, verify_dl, verify_up, expected_size, before) ==
    {[NoCtx EXCEPT !.dl = DownloadRecording(o).result,
                   !.attempts = DownloadRecording(o).attempts,
                   !.before = before] :
        o \in DownloadOutcomes \ {"ok"}}
    \cup
    UNION {IF ShortCircuits(lv)
           THEN {[NoCtx EXCEPT !.dl = "ok", !.lv = lv,
                               !.attempts = DownloadRecording("ok").attempts,
                               !.before = before]}
           ELSE {[dl |-> "ok", lv |-> lv, up |-> u.up, rv |-> u.rv,
                  removed |-> u.removed,
                  attempts |-> DownloadRecording("ok").attempts,
                  before |-> before] :
                    u \in UploadTraces(backend, verify_up, expected_size)} :
             lv \in LocalTraces(verify_dl, expected_size)}

\* Whether the iteration ended with the file counted as processed: the
\* download returned True, the local check saw no mismatch and nothing raised.
FileFine(c) == c.dl = "ok" /\ c.lv # "mismatch" /\ NoException(c.up, c.rv)

TraceEvents(c) ==
    (IF c.dl # "ok" THEN {"dlfail"} ELSE {})
      \cup (IF c.lv = "mismatch" THEN {"lmismatch"} ELSE {})
      \cup (IF c.up = "false" THEN {"upfalse"} ELSE {})
      \cup (IF c.rv = "mismatch" THEN {"rvmismatch"} ELSE {})
      \cup (IF ~NoException(c.up, c.rv) THEN {"exception"} ELSE {})

DownloadFailures == {"dlfail", "lmismatch"}

\* What the iteration leaves behind of a trace: of the local size check only
\* whether it reported a mismatch, the one status the loop branches on.
Seen(c) ==
    [c EXCEPT !.lv = IF @ \in {"none", "mismatch"} THEN @ ELSE "passed"]

\* One iteration of the loop over the recording's files.
ProcessFile(t) ==
    /\ pc[t] = "download"
    /\ \E c \in FileTraces(storage, VERIFY_ON_DOWNLOAD, VERIFY_ON_UPLOAD,
                           ExpectedSize(t), all_files_success[t]) :
          /\ ctx' = [ctx EXCEPT ![t] = Seen(c)]
          /\ all_files_success' =
                 [all_files_success EXCEPT ![t] = MarkFile(@, FileFine(c))]
          /\ events' = [events EXCEPT ![t] = @ \cup TraceEvents(c)]
    /\ attempted' = [attempted EXCEPT ![t] = @ \cup {idx[t]}]
    /\ downloaded' = downloaded \cup {<<recordings[t], idx[t]>>}
    /\ pc' = [pc EXCEPT ![t] = "file_done"]
    /\ UNCHANGED <<confVars, deltaVars, scanVars, cancelled,
                   ledgerVars, failed_log, idx, result, completed,
                   failed, saved, zoom_deleted, deletion, run, recordings,
                   cleanDl,
                   logAtStart, failedPrev, maintVars>>

\* The loop's step to the next file; after the last one, the decision on
\* all_files_success: save_completed_meeting_id (a no-op with the ledger
\* disabled), then the deletion if configured, then return True.
AfterSave == IF DELETE_FROM_ZOOM THEN "delete" ELSE "done"

NextFile(t) ==
    /\ pc[t] = "file_done"
    /\ ctx' = [ctx EXCEPT ![t] = NoCtx]
    /\ IF idx[t] < Len(RecordingFiles(recordings[t]))
       THEN /\ idx' = [idx EXCEPT ![t] = @ + 1]
            /\ pc' = [pc EXCEPT ![t] = "download"]
            /\ UNCHANGED <<result, cleanDl>>
       ELSE /\ UNCHANGED idx
            /\ cleanDl' = IF events[t] \cap DownloadFailures = {}
                          THEN cleanDl \cup {recordings[t]} ELSE cleanDl
            /\ IF ~all_files_success[t] THEN Finish(t, "False")
               ELSE IF USE_COMPLETED_LOG
                    THEN pc' = [pc EXCEPT ![t] = "save"] /\ UNCHANGED result
                    ELSE IF AfterSave = "done" THEN Finish(t, "True")
                         ELSE pc' = [pc EXCEPT ![t] = "delete"] /\ UNCHANGED result
    /\ UNCHANGED <<confVars, deltaVars, scanVars, cancelled,
                   ledgerVars, failed_log, all_files_success,
                   completed, failed, histVars, run, recordings, downloaded,
                   logAtStart, failedPrev, maintVars>>

\* ------------------------------------------- save_completed_meeting_id
\* with completed_log_lock:
SaveAcquire(t) ==
    /\ NoStepPending
    /\ pc[t] = "save"
    /\ completed_log_lock = Free
    /\ completed_log_lock' = t
    /\ pc' = [pc EXCEPT ![t] = "save_write"]
    /\ UNCHANGED <<confVars, deltaVars, scanVars, cancelled,
                   COMPLETED_MEETING_IDS, completed_log, failed_log,
                   idx, all_files_success, ctx, result, completed, failed,
                   histVars, runVars, maintVars>>

\* The append. When open or write fails the exception leaves the with block
\* (the lock is released) and reaches process_recording's outer handler.
SaveWrite(t) ==
    /\ pc[t] = "save_write"
    /\ \E written \in BOOLEAN :
          IF written
          THEN /\ completed_log' = completed_log \o LogLine(recordings[t])
               /\ pc' = [pc EXCEPT ![t] = "save_add"]
               /\ UNCHANGED <<completed_log_lock, result, events>>
          ELSE /\ completed_log_lock' = Free
               /\ Finish(t, "False")
               /\ events' = [events EXCEPT ![t] = @ \cup {"savefail"}]
               /\ UNCHANGED completed_log
    /\ UNCHANGED <<confVars, deltaVars, scanVars, cancelled,
                   COMPLETED_MEETING_IDS, failed_log, idx,
                   all_files_success, ctx, completed, failed, attempted,
                   saved, zoom_deleted, deletion, runVars, maintVars>>

\* COMPLETED_MEETING_IDS.add, the end of the with block, and the return to
\* process_recording.
SaveAdd(t) ==
    /\ NoStepPending
    /\ pc[t] = "save_add"
    /\ COMPLETED_MEETING_IDS' = COMPLETED_MEETING_IDS \cup {recordings[t]}
    /\ completed_log_lock' = Free
    /\ saved' = [saved EXCEPT ![t] = TRUE]
    /\ IF AfterSave = "done" THEN Finish(t, "True")
       ELSE pc' = [pc EXCEPT ![t] = "delete"] /\ UNCHANGED result
    /\ UNCHANGED <<confVars, deltaVars, scanVars, cancelled,
                   completed_log, failed_log, idx, all_files_success,
                   ctx, completed, failed, events, attempted, zoom_deleted,
                   deletion,
                   runVars, maintVars>>

\* A variant in which a failed deletion fails the recording.
AfterDeletionStrict(returned) == IF returned THEN "True" ELSE "False"

\* What process_recording returns after the deletion: the value returned by
\* delete_recording_from_zoom is not looked at.
AfterDeletion(returned) == "True"

\* delete_recording_from_zoom is called and its result dropped.
DeleteFromZoom(t) ==
    /\ pc[t] = "delete"
    /\ zoom_deleted' = [zoom_deleted EXCEPT ![t] = TRUE]
    /\ \E r \in ZoomResponses :
          deletion' = [deletion EXCEPT ![t] =
                          [raised |-> r.raised, status_code |-> r.status_code,
                           returned |-> delete_recording_from_zoom(
                                            r.raised, r.status_code)]]
    /\ Finish(t, AfterDeletion(deletion'[t].returned))
    /\ UNCHANGED <<confVars, deltaVars, scanVars, cancelled,
                   ledgerVars, failed_log, idx, all_files_success,
                   ctx, completed, failed, events, attempted, saved, runVars,
                   maintVars>>

\* ------------------------------------------------------------- the pool
\* What one outcome adds to <<completed, failed>> in main's loop over
\* as_completed: a true result is a completion, a false one a failure (as an
\* exception of future.result() would be).
TallyCompletionsOnly(res) == IF res = "True" THEN <<1, 0>> ELSE <<0, 0>>

Tally(res) == IF res = "True" THEN <<1, 0>> ELSE <<0, 1>>

\* main's loop over as_completed: one outcome is counted. The worker's locals
\* and the task's history are gone with the call. Once SystemExit has left
\* the loop nothing is counted any more: the outcome is dropped.
Collect(t) ==
    /\ pc[t] = "done"
    /\ pc' = [pc EXCEPT ![t] = "collected"]
    /\ completed' = IF cancelled THEN completed
                    ELSE completed + Tally(result[t])[1]
    /\ failed' = IF cancelled THEN failed ELSE failed + Tally(result[t])[2]
    /\ result' = [result EXCEPT ![t] = "none"]
    /\ idx' = [idx EXCEPT ![t] = 0]
    /\ all_files_success' = [all_files_success EXCEPT ![t] = TRUE]
    /\ events' = [events EXCEPT ![t] = {}]
    /\ attempted' = [attempted EXCEPT ![t] = {}]
    /\ saved' = [saved EXCEPT ![t] = FALSE]
    /\ zoom_deleted' = [zoom_deleted EXCEPT ![t] = FALSE]
    /\ deletion' = [deletion EXCEPT ![t] = NoDeletion]
    /\ UNCHANGED <<confVars, deltaVars, scanVars, cancelled,
                   ledgerVars, failed_log, ctx, runVars, maintVars>>

RunDrained == \A t \in Tasks : pc[t] = "collected"

\* SIGINT while the pool works: the handler calls system.exit(0), which raises
\* SystemExit in the main thread, inside the with block of the executor. The
\* block's exit is shutdown(wait=True) without cancel_futures: the submitted
\* tasks stay in the pool's queue and the workers go on taking them.
handle_graceful_shutdown ==
    /\ mode = "sync"
    /\ ~cancelled
    /\ ~RunDrained
    /\ cancelled' = TRUE
    /\ UNCHANGED <<confVars, deltaVars, scanVars, ledgerVars, failed_log,
                   taskVars, histVars, runVars, maintVars>>

\* The uuids that were processed in this run and every processing of which
\* ended with a failed download or a local size mismatch.
FailedInRun ==
    {u \in Uuids :
        /\ \E f \in downloaded : f[1] = u
        /\ u \notin cleanDl}

\* The pool has drained; the process ends and is started again on the same
\* catalog: the in-memory set is rebuilt from the file.
NextRun ==
    /\ mode = "sync"
    /\ run < MaxRuns
    /\ RunDrained
    /\ run' = run + 1
    /\ COMPLETED_MEETING_IDS' =
           LoadCompletedMeetingIds(USE_COMPLETED_LOG, {}, completed_log)
    /\ logAtStart' = completed_log
    /\ failedPrev' = FailedInRun
    /\ failed_log' = {}
    /\ pc' = Fresh(recordings, "queued")
    /\ idx' = Fresh(recordings, 0)
    /\ all_files_success' = Fresh(recordings, TRUE)
    /\ completed' = 0
    /\ failed' = 0
    /\ downloaded' = {}
    /\ cleanDl' = {}
    /\ cancelled' = FALSE
    /\ UNCHANGED <<confVars, deltaVars, scanVars,
                   completed_log, completed_log_lock, recordings,
                   ctx, result, histVars, maintVars>>

\* ------------------------------------------------------------ per_delta
Min(a, b) == IF a <= b THEN a ELSE b

\* A variant of the loop test that goes on while curr <= end.
ContinuesInclusive(c, e) == c <= e

\* while curr < end:
Continues(c, e) == c < e

\* A variant that yields the whole step, not clipped at end.
SubRangeUnclipped(c, e, d) == <<c, c + d>>

\* The pair yielded: curr, min(curr + delta, end).
SubRange(c, e, d) == <<c, Min(c + d, e)>>

\* The state of everything but the listing while recordings are listed:
\* nothing was submitted to a pool yet.
NothingElseRuns ==
    /\ USE_COMPLETED_LOG = TRUE
    /\ storage = "local"
    /\ VERIFY_ON_DOWNLOAD = TRUE
    /\ VERIFY_ON_UPLOAD = TRUE
    /\ DELETE_FROM_ZOOM = FALSE
    /\ delete_verified = FALSE
    /\ mode = "sync"
    /\ completed_log = <<>>
    /\ COMPLETED_MEETING_IDS = {}
    /\ completed_log_lock = Free
    /\ failed_log = {}
    /\ run = 1
    /\ recordings = <<>>
    /\ pc = <<>>
    /\ idx = <<>>
    /\ all_files_success = <<>>
    /\ ctx = <<>>
    /\ result = <<>>
    /\ completed = 0
    /\ failed = 0
    /\ events = <<>>
    /\ attempted = <<>>
    /\ saved = <<>>
    /\ zoom_deleted = <<>>
    /\ deletion = <<>>
    /\ downloaded = {}
    /\ cleanDl = {}
    /\ logAtStart = <<>>
    /\ failedPrev = {}
    /\ mpc = "off"
    /\ affected = {}
    /\ cancelled = FALSE
    /\ scan = NoScan
    /\ fully_verified = {}
    /\ report = FALSE
    /\ response = "none"
    /\ rewrote = "none"
    /\ restored_uuids = {}
    /\ failed_uuids = {}
    /\ restore_responses = NoScan

\* A call per_delta(start, end, delta) with a positive delta, before the
\* generator's first step: curr = start. Dates are counted in days.
InitDelta ==
    /\ NothingElseRuns
    /\ ListingIdle
    /\ VerifLogIdle
    /\ ExtrasIdle
    /\ start \in 0..MaxDate
    /\ end \in 0..MaxDate
    /\ delta \in 1..MaxDelta
    /\ curr = start
    /\ yielded = <<>>
    /\ gpc = "running"

\* One turn of the loop: a pair is yielded; when the generator is resumed,
\* curr += delta.
PerDeltaYield ==
    /\ gpc = "running"
    /\ Continues(curr, end)
    /\ yielded' = Append(yielded, SubRange(curr, end, delta))
    /\ curr' = curr + delta
    /\ UNCHANGED <<confVars, ledgerVars, failed_log, taskVars, histVars,
                   runVars, maintVars, cancelled, scanVars, start, end, delta,
                   gpc, listVars, verifVars, extraVars>>

\* The loop test fails: the generator is exhausted.
PerDeltaReturn ==
    /\ gpc = "running"
    /\ ~Continues(curr, end)
    /\ gpc' = "returned"
    /\ UNCHANGED <<confVars, ledgerVars, failed_log, taskVars, histVars,
                   runVars, maintVars, cancelled, scanVars, start, end, delta,
                   curr, yielded, listVars, verifVars, extraVars>>

NextDelta == PerDeltaYield \/ PerDeltaReturn

SpecDelta == InitDelta /\ [][NextDelta]_vars

\* The for loop of the caller resumes the generator after each pair.
SpecDeltaFair == SpecDelta /\ WF_vars(NextDelta)

\* ------------------------------------------------------- list_recordings
\* The users get_users returned, and the user each recording belongs to.
Users == {1, 2}
Owner(uuid) == IF uuid = <<"z">> THEN 2 ELSE 1

\* What one query of a user's recordings comes to: a body with the key
\* "meetings"; a body without it (an error reported as JSON); a body that
\* response.json() cannot parse; requests.get raises.
QueryOutcomes == {"meetings", "no_meetings", "bad_json", "transport"}

\* recordings_data["meetings"] for the parameters from and to: the user's
\* recordings dated from the first day to the last day, both included.
Meetings(u, from, to) ==
    SelectSeq(<<<<"x">>, <<"y">>, <<"z">>>>,
              LAMBDA m : Owner(m) = u /\ from <= rec_date[m] /\ rec_date[m] <= to)

\* A variant in which a body without the key raises as well.
QueryRaisesWithoutKey(outcome) == outcome # "meetings"

\* The outcomes of a query that raise: nothing in list_recordings catches
\* the exception of requests.get or of response.json().
QueryRaises(outcome) == outcome \in {"bad_json", "transport"}

\* main has the users and calls list_recordings for the first one: the date
\* range starts on day 0.
InitListing ==
    /\ NothingElseRuns
    /\ VerifLogIdle
    /\ ExtrasIdle
    /\ start = 0
    /\ end \in 0..MaxDate
    /\ delta \in 1..MaxDelta
    /\ curr = start
    /\ yielded = <<>>
    /\ gpc = "running"
    /\ user = 1
    /\ visited = {1}
    /\ rec_date \in [Uuids -> 0..MaxDate]
    /\ query_answers = <<>>

\* One turn of list_recordings' loop over per_delta: the query for the
\* sub-interval, and recordings.extend. Nothing catches an exception of
\* requests.get or of response.json(): it leaves list_recordings and main.
ListRecordingsQuery ==
    /\ gpc = "running"
    /\ user \in Users
    /\ Continues(curr, end)
    /\ yielded' = Append(yielded, SubRange(curr, end, delta))
    /\ \E outcome \in QueryOutcomes :
          /\ query_answers' = Append(query_answers, outcome)
          /\ IF QueryRaises(outcome)
             THEN gpc' = "crashed" /\ UNCHANGED <<recordings, curr>>
             ELSE /\ curr' = curr + delta
                  /\ recordings' =
                        IF outcome = "meetings"
                        THEN recordings
                               \o Meetings(user, SubRange(curr, end, delta)[1],
                                           SubRange(curr, end, delta)[2])
                        ELSE recordings
                  /\ UNCHANGED gpc
    /\ UNCHANGED <<confVars, ledgerVars, failed_log, taskVars, histVars, run,
                   downloaded, cleanDl, logAtStart, failedPrev, maintVars,
                   cancelled, scanVars, start, end, delta, user, visited,
                   rec_date, verifVars, extraVars>>

\* list_recordings returns; main hands the recordings to the pool and, when
\* the pool has drained (or at once for an empty list), goes on to the next
\* user, or ends after the last one.
ListRecordingsReturn ==
    /\ gpc = "running"
    /\ user \in Users
    /\ ~Continues(curr, end)
    /\ IF user + 1 \in Users
       THEN /\ user' = user + 1
            /\ visited' = visited \cup {user + 1}
            /\ curr' = start
            /\ yielded' = <<>>
            /\ recordings' = <<>>
            /\ query_answers' = <<>>
            /\ UNCHANGED gpc
       ELSE /\ gpc' = "returned"
            /\ UNCHANGED <<user, visited, curr, yielded, recordings, query_answers>>
    /\ UNCHANGED <<confVars, ledgerVars, failed_log, taskVars, histVars, run,
                   downloaded, cleanDl, logAtStart, failedPrev, maintVars,
                   cancelled, scanVars, start, end, delta, rec_date,
                   verifVars, extraVars>>

NextListing == ListRecordingsQuery \/ ListRecordingsReturn

SpecListing == InitListing /\ [][NextListing]_vars

\* ---------------------------------------- build_active_recordings_lookup
\* list_recordings splits the range into sub-intervals of 30 days: a range
\* within Days is one sub-interval, and one query.
LookupDelta == 30

\* A variant in which the range is restored after the loop, without finally.
RestoredOnReturn(original, current, raised) ==
    IF raised THEN current ELSE original

\* finally: the global is set to its saved value, whether the try block was
\* left by an exception or not.
RestoreDateRange(original, current, raised) == original

\* verify_completed_downloads is about to call the lookup: the global date
\* range and the arguments are any days, the recordings of any days, x
\* first and z last.
InitLookup ==
    /\ NothingElseRuns
    /\ start = 0
    /\ end = 0
    /\ delta = 1
    /\ curr = 0
    /\ yielded = <<>>
    /\ gpc = "off"
    /\ user = 0
    /\ visited = {}
    /\ query_answers = <<>>
    /\ rec_date \in [Uuids -> Days]
    /\ rec_date[<<"x">>] <= rec_date[<<"y">>]
    /\ rec_date[<<"y">>] <= rec_date[<<"z">>]
    /\ VerifLogIdle
    /\ S3Idle
    /\ PurgeIdle
    /\ TrashIdle
    /\ AUTO_DATE_RANGE = FALSE
    /\ start_date = 0
    /\ end_date = 0
    /\ RECORDING_START_DATE \in Days
    /\ RECORDING_END_DATE \in Days
    /\ last_run_log = [state |-> "absent", day |-> NoDate]
    /\ today = 0
    /\ apc = "off"
    /\ ending = "none"
    /\ aruns = 0
    /\ marker_reads = 0
    /\ marker_writes = 0
    /\ marker_before = [state |-> "absent", day |-> NoDate]
    /\ processed = {}
    /\ failed_before = {}
    /\ lpc = "called"
    /\ luser = 0
    /\ original_start = 0
    /\ original_end = 0
    /\ lookup_from \in Days
    /\ lookup_to \in Days
    /\ range_before = <<0, 0>>
    /\ lookup_raised = FALSE
    /\ recordings_by_uuid = {}

NotLookup ==
    <<confVars, ledgerVars, failed_log, taskVars, histVars, runVars,
      maintVars, cancelled, scanVars, start, end, delta, curr, yielded, gpc,
      listVars, verifVars, s3Vars, purgeVars, trashVars, AUTO_DATE_RANGE,
      start_date, end_date, last_run_log, today, apc, ending, aruns,
      marker_reads, marker_writes, marker_before, processed, failed_before,
      lookup_from, lookup_to>>

\* The globals are saved in original_start and original_end and set to the
\* arguments.
LookupBegin ==
    /\ lpc = "called"
    /\ original_start' = RECORDING_START_DATE
    /\ original_end' = RECORDING_END_DATE
    /\ range_before' = <<RECORDING_START_DATE, RECORDING_END_DATE>>
    /\ RECORDING_START_DATE' = lookup_from
    /\ RECORDING_END_DATE' = lookup_to
    /\ luser' = 1
    /\ lpc' = "loop"
    /\ UNCHANGED <<NotLookup, lookup_raised, recordings_by_uuid>>

\* One turn of the loop over the users: list_recordings queries the global
\* range, if per_delta yields a sub-interval at all, and its recordings are
\* entered by uuid. An exception of the query leaves the try block.
LookupUser ==
    /\ lpc = "loop"
    /\ luser \in Users
    /\ \E outcome \in QueryOutcomes :
          IF /\ Continues(RECORDING_START_DATE, RECORDING_END_DATE)
             /\ QueryRaises(outcome)
          THEN /\ lookup_raised' = TRUE
               /\ lpc' = "finally"
               /\ UNCHANGED <<luser, recordings_by_uuid>>
          ELSE /\ LET listed ==
                          Meetings(luser, RECORDING_START_DATE,
                                   SubRange(RECORDING_START_DATE,
                                            RECORDING_END_DATE,
                                            LookupDelta)[2])
                  IN  recordings_by_uuid' =
                         IF /\ Continues(RECORDING_START_DATE,
                                         RECORDING_END_DATE)
                            /\ outcome = "meetings"
                         THEN recordings_by_uuid
                                \cup {listed[i] : i \in DOMAIN listed}
                         ELSE recordings_by_uuid
               /\ luser' = luser + 1
               /\ lpc' = IF luser + 1 \in Users THEN "loop" ELSE "finally"
               /\ UNCHANGED lookup_raised
    /\ UNCHANGED <<NotLookup, RECORDING_START_DATE, RECORDING_END_DATE,
                   original_start, original_end, range_before>>

\* finally, then the return of the dictionary or the exception going on to
\* the caller.
LookupFinally ==
    /\ lpc = "finally"
    /\ RECORDING_START_DATE' =
           RestoreDateRange(original_start, RECORDING_START_DATE,
                            lookup_raised)
    /\ RECORDING_END_DATE' =
           RestoreDateRange(original_end, RECORDING_END_DATE, lookup_raised)
    /\ lpc' = IF lookup_raised THEN "raised" ELSE "returned"
    /\ UNCHANGED <<NotLookup, luser, original_start, original_end,
                   range_before, lookup_raised, recordings_by_uuid>>

NextLookup == LookupBegin \/ LookupUser \/ LookupFinally

SpecLookup == InitLookup /\ [][NextLookup]_vars

\* ------------------------------------------------- the verification log
\* The workers are about to log their verification results.
InitVerifLog ==
    /\ NothingElseRuns
    /\ GeneratorIdle
    /\ ExtrasIdle
    /\ VERIFICATION_LOG \in BOOLEAN
    /\ verification_log_lock = Free
    /\ verification_file \in InitialVerificationFiles
    /\ verification_data = [w \in VWorkers |-> EmptyDocument]
    /\ vpc = [w \in VWorkers |-> "idle"]
    /\ vcall = [w \in VWorkers |-> NoCall]
    /\ vcalls = 0
    /\ vlogged = {}

NotVerifLog ==
    <<confVars, ledgerVars, failed_log, taskVars, histVars, runVars,
      maintVars, cancelled, scanVars, start, end, delta, curr, yielded, gpc,
      listVars, extraVars>>

\* A worker calls log_verification_result: without a configured log the call
\* returns at once, with one it goes for the lock.
LogVerificationResult(w) ==
    /\ vpc[w] = "idle"
    /\ vcalls < MaxCalls
    /\ vcalls' = vcalls + 1
    /\ IF VERIFICATION_LOG
       THEN /\ \E call \in VerificationCalls(w, vcalls + 1) :
                  vcall' = [vcall EXCEPT ![w] = call]
            /\ vpc' = [vpc EXCEPT ![w] = "waiting"]
       ELSE UNCHANGED <<vcall, vpc>>
    /\ UNCHANGED <<NotVerifLog, VERIFICATION_LOG, verification_log_lock,
                   verification_file, verification_data, vlogged>>

\* The worker enters the with block.
VLogAcquire(w) ==
    /\ vpc[w] = "waiting"
    /\ LockAvailable(verification_log_lock)
    /\ verification_log_lock' = w
    /\ vpc' = [vpc EXCEPT ![w] = "locked"]
    /\ UNCHANGED <<NotVerifLog, VERIFICATION_LOG, verification_file,
                   verification_data, vcall, vcalls, vlogged>>

\* The file is read and the entry merged into the worker's copy.
VLogLoad(w) ==
    /\ vpc[w] = "locked"
    /\ verification_data' =
          [verification_data EXCEPT ![w] =
              AppendEntry(LoadVerificationData(verification_file), vcall[w])]
    /\ vpc' = [vpc EXCEPT ![w] = "merged"]
    /\ UNCHANGED <<NotVerifLog, VERIFICATION_LOG, verification_log_lock,
                   verification_file, vcall, vcalls, vlogged>>

\* The worker's copy is written over the file. The write succeeds: this
\* specification is about the interleavings of the calls, not about a disk
\* that fails.
VLogSave(w) ==
    /\ vpc[w] = "merged"
    /\ verification_file' = [state |-> "ok", doc |-> verification_data[w]]
    /\ vpc' = [vpc EXCEPT ![w] = "saved"]
    /\ UNCHANGED <<NotVerifLog, VERIFICATION_LOG, verification_log_lock,
                   verification_data, vcall, vcalls, vlogged>>

\* The with block is left and the call returns.
VLogRelease(w) ==
    /\ vpc[w] = "saved"
    /\ verification_log_lock' = Free
    /\ vpc' = [vpc EXCEPT ![w] = "idle"]
    /\ verification_data' = [verification_data EXCEPT ![w] = EmptyDocument]
    /\ vlogged' = vlogged \cup {vcall[w]}
    /\ UNCHANGED <<NotVerifLog, VERIFICATION_LOG, verification_file, vcall,
                   vcalls>>

NextVerifLog ==
    \E w \in VWorkers :
       \/ LogVerificationResult(w)
       \/ VLogAcquire(w)
       \/ VLogLoad(w)
       \/ VLogSave(w)
       \/ VLogRelease(w)

SpecVerifLog == InitVerifLog /\ [][NextVerifLog]_vars

\* ----------------------------------------------- runs with a date range
\* Before the first process starts, on day 0: the configuration, the marker
\* file left by earlier runs, and the days on which the account's recordings
\* are made, x first and z last.
InitAuto ==
    /\ NothingElseRuns
    /\ start = 0
    /\ end = 0
    /\ delta = 1
    /\ curr = 0
    /\ yielded = <<>>
    /\ gpc = "off"
    /\ VerifLogIdle
    /\ S3Idle
    /\ PurgeIdle
    /\ TrashIdle
    /\ LookupIdle
    /\ AUTO_DATE_RANGE \in BOOLEAN
    /\ today = 0
    /\ start_date \in {NoDate, 0}
    /\ end_date = NoDate
    /\ RECORDING_START_DATE = 0
    /\ RECORDING_END_DATE = 0
    /\ last_run_log \in MarkerFiles(today)
    /\ apc = "off"
    /\ ending = "none"
    /\ aruns = 0
    /\ marker_reads = 0
    /\ marker_writes = 0
    /\ marker_before = last_run_log
    /\ processed = {}
    /\ failed_before = {}
    /\ rec_date \in [Uuids -> Days]
    /\ rec_date[<<"x">>] <= rec_date[<<"y">>]
    /\ rec_date[<<"y">>] <= rec_date[<<"z">>]
    /\ user = 0
    /\ visited = {}
    /\ query_answers = <<>>

NotAuto ==
    <<confVars, ledgerVars, failed_log, taskVars, histVars, runVars,
      maintVars, cancelled, scanVars, start, end, delta, curr, yielded, gpc,
      user, visited, query_answers, verifVars, s3Vars, purgeVars,
      trashVars, lookupVars>>

\* A process starts, the same day or later: the module's top level reads
\* the configured dates.
StartProcess ==
    /\ apc \in {"off", "ended", "exited"}
    /\ ending' = "none"
    /\ aruns < MaxRuns
    /\ aruns' = aruns + 1
    /\ \E now \in today..MaxDate :
          /\ today' = now
          /\ RECORDING_START_DATE' = ConfiguredStart(start_date, now)
          /\ RECORDING_END_DATE' = ConfiguredEnd(end_date, now)
    /\ marker_reads' = 0
    /\ marker_writes' = 0
    /\ marker_before' = last_run_log
    /\ apc' = "started"
    /\ UNCHANGED <<NotAuto, AUTO_DATE_RANGE, start_date, end_date,
                   last_run_log, processed, failed_before, rec_date>>

\* main calls calculate_auto_date_range.
CalculateAutoDateRange ==
    /\ apc = "started"
    /\ RECORDING_START_DATE' =
          AutoStart(AUTO_DATE_RANGE, get_last_run_time(last_run_log),
                    RECORDING_START_DATE)
    /\ RECORDING_END_DATE' =
          AutoEnd(AUTO_DATE_RANGE, get_last_run_time(last_run_log),
                  RECORDING_END_DATE, today)
    /\ marker_reads' = IF AUTO_DATE_RANGE THEN marker_reads + 1
                       ELSE marker_reads
    /\ apc' = "ranged"
    /\ UNCHANGED <<NotAuto, AUTO_DATE_RANGE, start_date, end_date,
                   last_run_log, today, ending, aruns, marker_writes,
                   marker_before, processed, failed_before, rec_date>>

\* main's loop over the users: the recordings of the date range are listed
\* and those not in the ledger processed; some of them get into the ledger,
\* the others fail. The loop runs through or is left by an exception or by
\* SystemExit; either way the statements after it are reached or not.
ProcessUsers ==
    /\ apc = "ranged"
    /\ \E how \in RunEndings :
       \E ok \in SUBSET (InWindow(RECORDING_START_DATE, RECORDING_END_DATE, today)
                           \ processed) :
          /\ processed' = processed \cup ok
          /\ failed_before' =
                IF how = "through"
                THEN (InWindow(RECORDING_START_DATE, RECORDING_END_DATE, today)
                        \ processed) \ ok
                ELSE {}
          /\ ending' = how
          /\ apc' = IF ReachesEnd(how) THEN "looped" ELSE "exited"
    /\ UNCHANGED <<NotAuto, AUTO_DATE_RANGE, start_date, end_date,
                   RECORDING_START_DATE, RECORDING_END_DATE, last_run_log,
                   today, aruns, marker_reads, marker_writes, marker_before,
                   rec_date>>

\* The end of main: save_last_run_time when the auto date range is enabled;
\* a write that fails is caught and reported.
SaveLastRunTime ==
    /\ apc = "looped"
    /\ IF AUTO_DATE_RANGE
       THEN /\ marker_writes' = marker_writes + 1
            /\ \E written \in BOOLEAN :
                  last_run_log' = IF written
                                  THEN [state |-> "ok", day |-> today]
                                  ELSE last_run_log
       ELSE UNCHANGED <<marker_writes, last_run_log>>
    /\ apc' = "ended"
    /\ UNCHANGED <<NotAuto, AUTO_DATE_RANGE, start_date, end_date,
                   RECORDING_START_DATE, RECORDING_END_DATE, today, ending,
                   aruns, marker_reads, marker_before, processed,
                   failed_before, rec_date>>

NextAuto ==
    \/ StartProcess
    \/ CalculateAutoDateRange
    \/ ProcessUsers
    \/ SaveLastRunTime

SpecAuto == InitAuto /\ [][NextAuto]_vars

\* --------------------------------------------- an upload to S3, alone
\* upload_file is called: the configuration holds some retry budget, the
\* default at most, and some delay.
InitS3 ==
    /\ NothingElseRuns
    /\ GeneratorIdle
    /\ VerifLogIdle
    /\ AutoIdle
    /\ PurgeIdle
    /\ TrashIdle
    /\ LookupIdle
    /\ s3pc = "called"
    /\ s3_max_retries \in 0..max_retries
    /\ retry_delay \in 0..MaxDelta
    /\ attempt = 0
    /\ s3_trace = <<>>
    /\ s3_sleeps = <<>>
    /\ s3_lines = 0
    /\ s3_returned = "none"

NotS3 ==
    <<confVars, ledgerVars, failed_log, taskVars, histVars, runVars,
      maintVars, cancelled, scanVars, start, end, delta, curr, yielded, gpc,
      listVars, verifVars, autoVars, purgeVars, trashVars, lookupVars>>

\* The statements before the loop: the key and the configuration are read;
\* an exception there is caught by the outer except. range(max_retries)
\* without an element ends the loop at once and the method returns None.
S3Prepare ==
    /\ s3pc = "called"
    /\ \E raised \in BOOLEAN :
          IF raised
          THEN s3pc' = "returned" /\ s3_returned' = "False"
          ELSE IF 0 < s3_max_retries
               THEN s3pc' = "attempt" /\ UNCHANGED s3_returned
               ELSE s3pc' = "returned" /\ s3_returned' = "None"
    /\ UNCHANGED <<NotS3, s3_max_retries, retry_delay, attempt, s3_trace,
                   s3_sleeps, s3_lines>>

\* One turn of the loop: the attempt, and on failure either the sleep before
\* the next attempt or the line in the failed-uploads log (its append
\* succeeds) and the return of False.
S3Attempt ==
    /\ s3pc = "attempt"
    /\ \E outcome \in AttemptOutcomes :
          /\ s3_trace' = Append(s3_trace, outcome)
          /\ IF outcome = "ok"
             THEN /\ s3pc' = "returned"
                  /\ s3_returned' = "True"
                  /\ UNCHANGED <<attempt, s3_sleeps, s3_lines>>
             ELSE IF Retries(attempt, s3_max_retries)
                  THEN /\ s3_sleeps' = Append(s3_sleeps, retry_delay)
                       /\ IF attempt + 1 < s3_max_retries
                          THEN /\ attempt' = attempt + 1
                               /\ UNCHANGED <<s3pc, s3_returned>>
                          ELSE /\ s3pc' = "returned"
                               /\ s3_returned' = "None"
                               /\ UNCHANGED attempt
                       /\ UNCHANGED s3_lines
                  ELSE /\ s3_lines' = s3_lines + 1
                       /\ s3pc' = "returned"
                       /\ s3_returned' = "False"
                       /\ UNCHANGED <<attempt, s3_sleeps>>
    /\ UNCHANGED <<NotS3, s3_max_retries, retry_delay>>

NextS3 == S3Prepare \/ S3Attempt

SpecS3 == InitS3 /\ [][NextS3]_vars

\* ------------------------------------------------ ledger maintenance
\* input(...) at a confirmation prompt, and str.lower() of the answer.
Answers == {"y", "Y", "n"}
Lower(answer) == IF answer = "Y" THEN "y" ELSE answer

\* A variant that takes every answer for a confirmation.
ConfirmsAlways(answer) == TRUE

\* response.lower() == 'y'
Confirms(answer) == Lower(answer) = "y"

\* What the disk may hold for a file the verification pass looks for:
\* <<exists, size, getsize raises>>.
VerifyFileStates(expected_size) ==
    {<<FALSE, 0, FALSE>>, <<TRUE, 0, TRUE>>}
      \cup {<<TRUE, a, FALSE>> : a \in ActualSizes(expected_size)}

\* A file the pass did not check: without a size, or after an exception.
Unchecked(status) ==
    [exists |-> FALSE, actual |-> 0, oserror |-> FALSE, status |-> status]

\* storage_service.verify_file_size of the backend chosen for the pass.
\* S3Client has no such method: the call raises AttributeError.
RemoteVerdicts(storage_type) ==
    IF storage_type = "gdrive"
    THEN {Unchecked(s) : s \in VerifyFileSizeOutcomes}
    ELSE {Unchecked("raise")}

\* The size check of one file of a ledger entry: skipped for a file without
\* a size, verify_local_file_size for local storage, the backend's otherwise.
FileVerdicts(storage_type, expected_size) ==
    IF expected_size = 0 THEN {Unchecked("skipped")}
    ELSE IF storage_type = "local"
    THEN {[exists |-> x[1], actual |-> x[2], oserror |-> x[3],
           status |-> verify_local_file_size(x[1], x[2], expected_size, x[3])] :
             x \in VerifyFileStates(expected_size)}
    ELSE RemoteVerdicts(storage_type)

\* The loop over the files of one entry: an exception ends it, and the
\* remaining files are not looked at.
RECURSIVE FileScans(_, _)
FileScans(storage_type, sizes) ==
    IF sizes = <<>> THEN {<<>>}
    ELSE LET heads == FileVerdicts(storage_type, Head(sizes))
         IN  {<<v>> \o rest :
                 v \in {h \in heads : h.status # "raise"},
                 rest \in FileScans(storage_type, Tail(sizes))}
               \cup
             {<<v>> \o [i \in 1..Len(Tail(sizes)) |-> Unchecked("unchecked")] :
                 v \in {h \in heads : h.status = "raise"}}

\* What the pass may find for one ledger entry: the recording is active, in
\* the trash or not accessible; for an active one get_downloads and then the
\* files' checks.
EntryScans(storage_type, uuid) ==
    {[access |-> a, raised |-> FALSE, files |-> <<>>] :
        a \in {"in_trash", "not_accessible"}}
      \cup
    (IF uuid \notin Uuids THEN {}
     ELSE IF GetDownloadsRaises(uuid)
     THEN {[access |-> "active", raised |-> TRUE, files |-> <<>>]}
     ELSE {[access |-> "active",
            raised |-> \E i \in DOMAIN f : f[i].status = "raise",
            files |-> f] :
              f \in FileScans(storage_type, RecordingFiles(uuid))})

\* What the pass may find for the whole ledger.
Scans(storage_type, ids) ==
    {s \in [ids -> UNION {EntryScans(storage_type, u) : u \in ids}] :
        \A u \in ids : s[u] \in EntryScans(storage_type, u)}

HasStatus(entry, statuses) ==
    \E i \in DOMAIN entry.files : entry.files[i].status \in statuses

\* len(verified_by_recording[uuid])
VerifiedCount(entry) ==
    Cardinality({i \in DOMAIN entry.files : entry.files[i].status = "verified"})

\* failed_recordings
FailedRecordings(s) ==
    {u \in DOMAIN s :
        s[u].raised \/ HasStatus(s[u], {"mismatch", "missing", "error"})}

\* total_verifiable_files
TotalVerifiable(uuid) ==
    Cardinality({i \in DOMAIN RecordingFiles(uuid) : RecordingFiles(uuid)[i] > 0})

\* A variant that lists every recording with a verified file.
FullyVerifiedAnyVerified(s) ==
    {u \in DOMAIN s : VerifiedCount(s[u]) > 0}

\* fully_verified_recordings
FullyVerified(s) ==
    {u \in DOMAIN s :
        /\ VerifiedCount(s[u]) > 0
        /\ u \notin FailedRecordings(s)
        /\ s[u].access = "active"
        /\ VerifiedCount(s[u]) = TotalVerifiable(u)}

\* A variant that also removes the entries with an error.
AffectedWithErrors(s) ==
    {u \in DOMAIN s : HasStatus(s[u], {"mismatch", "missing", "error"})}

\* affected_uuids: the uuids in results["mismatches"] and results["missing"].
AffectedUuids(s) ==
    {u \in DOMAIN s : HasStatus(s[u], {"mismatch", "missing"})}

\* A variant that empties the set.
RemovedAll(ids, recording_uuids) == {}

\* COMPLETED_MEETING_IDS.remove(uuid), for each of the uuids that is in it.
Removed(ids, recording_uuids) == ids \ recording_uuids

\* verify_completed_downloads: the ledger is loaded and every entry checked;
\* with an empty ledger the pass returns at once. main calls
\* auto_fix_corrupted_recordings when a mismatch or a missing file was found.
VerifyCompletedDownloads ==
    /\ mode = "verify"
    /\ mpc = "start"
    /\ COMPLETED_MEETING_IDS' =
           LoadCompletedMeetingIds(USE_COMPLETED_LOG, COMPLETED_MEETING_IDS,
                                   completed_log)
    /\ \E s \in Scans(storage, COMPLETED_MEETING_IDS') :
          /\ scan' = s
          /\ fully_verified' = FullyVerified(s)
          /\ affected' = AffectedUuids(s)
    /\ mpc' = IF affected' = {} THEN "done" ELSE "autofix"
    /\ UNCHANGED <<confVars, deltaVars, cancelled, completed_log,
                   completed_log_lock, failed_log, taskVars, histVars, runVars,
                   report, response, rewrote, restored_uuids, failed_uuids, restore_responses>>

\* auto_fix_corrupted_recordings up to the rewrite: the confirmation, then
\* the affected uuids are removed from the set. No lock is taken.
AutoFixRemove ==
    /\ mpc = "autofix"
    /\ \E answer \in Answers :
          /\ response' = answer
          /\ IF ~Confirms(answer)
             THEN mpc' = "done" /\ UNCHANGED COMPLETED_MEETING_IDS
             ELSE /\ COMPLETED_MEETING_IDS' =
                         Removed(COMPLETED_MEETING_IDS, affected)
                  /\ mpc' = "af_rewrite"
    /\ UNCHANGED <<confVars, deltaVars, cancelled, completed_log,
                   completed_log_lock, failed_log, taskVars, histVars, runVars,
                   affected, scan, fully_verified, report, rewrote,
                   restored_uuids, failed_uuids, restore_responses>>

\* auto_fix_corrupted_recordings: the file is rewritten from the set, then
\* verification-report.log is written; an exception in either is caught and
\* printed.
AutoFixRewrite ==
    /\ mpc = "af_rewrite"
    /\ \E o \in Orders(COMPLETED_MEETING_IDS) :
          /\ completed_log' \in RewriteResults(completed_log, o)
          /\ rewrote' = IF completed_log' = WriteLines(o) THEN "ok" ELSE "failed"
    /\ report' \in (IF rewrote' = "ok" THEN BOOLEAN ELSE {FALSE})
    /\ mpc' = "done"
    /\ UNCHANGED <<confVars, deltaVars, cancelled, COMPLETED_MEETING_IDS,
                   completed_log_lock, failed_log, taskVars, histVars, runVars,
                   affected, scan, fully_verified, response, restored_uuids,
                   failed_uuids, restore_responses>>

\* delete_verified_recordings: the test after its prompt; anything but y or
\* Y cancels the deletion.
DeletionCancelledNever(answer) == FALSE

DeletionCancelled(answer) == Lower(answer) # "y"

\* The end of main's verification mode: with --delete-verified and a fully
\* verified recording, delete_verified_recordings asks for a confirmation and
\* then calls delete_recording_from_zoom for every recording of the list.
\* Without the flag or without such a recording main returns as it is. The
\* flag is read here and nowhere else: delete_verified tells whether it was
\* read as set.
DeleteVerifiedRecordings ==
    /\ mode = "verify"
    /\ mpc = "done"
    /\ ~delete_verified
    /\ delete_verified' = TRUE
    /\ fully_verified # {}
    /\ mpc' = "ended"
    /\ \E answer \in Answers :
          /\ purge_response' = answer
          /\ IF DeletionCancelled(answer)
             THEN UNCHANGED <<purge_called, purge_deleted>>
             ELSE \E answers \in [fully_verified -> ZoomResponses] :
                     /\ purge_called' = fully_verified
                     /\ purge_deleted' =
                           {u \in fully_verified :
                               delete_recording_from_zoom(
                                   answers[u].raised, answers[u].status_code)}
    /\ UNCHANGED <<confVars, ledgerVars, failed_log, taskVars, histVars,
                   runVars, affected, cancelled, scanVars, start, end, delta,
                   curr, yielded, gpc, listVars, verifVars, autoVars, s3Vars,
                   trashVars, lookupVars>>

\* parser.parse(recording["start_time"]).replace(tzinfo=timezone.utc).date():
\* a start_time that is missing or is no date raises.
ParsedDate(time) ==
    IF time = NoDate
    THEN [raised |-> TRUE, date |-> 0]
    ELSE [raised |-> FALSE, date |-> time]

\* A variant whose range ends before end_date.
FilterBeforeEnd(trash, times, first, last) ==
    {u \in trash :
        /\ ~ParsedDate(times[u]).raised
        /\ first <= ParsedDate(times[u]).date
        /\ ParsedDate(times[u]).date < last}

\* filter_recordings_by_date: the recordings whose date lies in the range;
\* one whose start_time does not parse is skipped.
filter_recordings_by_date(trash, times, first, last) ==
    {u \in trash :
        /\ ~ParsedDate(times[u]).raised
        /\ first <= ParsedDate(times[u]).date
        /\ ParsedDate(times[u]).date <= last}

\* restore_deleted_workflow: the recordings of the trash in the date range
\* are restored one by one after a confirmation. When any was restored the
\* ledger is loaded, and the restored uuids found in it are offered for
\* removal.
RestoreDeletedWorkflow ==
    /\ mode = "restore"
    /\ mpc = "start"
    /\ LET filtered_recordings ==
               filter_recordings_by_date(all_trash_recordings, start_time,
                                         from_date, to_date)
       IN
       IF all_trash_recordings = {} \/ filtered_recordings = {}
       THEN /\ mpc' = "idle"
            /\ UNCHANGED <<COMPLETED_MEETING_IDS, affected, response,
                           restored_uuids, failed_uuids, restore_responses,
                           restore_response>>
       ELSE \E go \in Answers :
          /\ restore_response' = go
          /\ IF ~Confirms(go)
             THEN /\ mpc' = "idle"
                  /\ UNCHANGED <<COMPLETED_MEETING_IDS, affected, response,
                                 restored_uuids, failed_uuids,
                                 restore_responses>>
             ELSE \E answers \in [filtered_recordings -> ZoomResponses] :
                LET restored ==
                        {u \in filtered_recordings :
                            restore_recording_from_zoom(answers[u].raised,
                                                        answers[u].status_code)}
                IN   /\ restore_responses' = answers
                     /\ restored_uuids' = restored
                     /\ failed_uuids' = filtered_recordings \ restored
                     /\ IF restored = {}
                        THEN /\ mpc' = "done"
                             /\ UNCHANGED <<COMPLETED_MEETING_IDS, affected,
                                            response>>
                        ELSE /\ COMPLETED_MEETING_IDS' =
                                    LoadCompletedMeetingIds(USE_COMPLETED_LOG,
                                        COMPLETED_MEETING_IDS, completed_log)
                             /\ LET in_completed_log ==
                                        restored \cap COMPLETED_MEETING_IDS'
                                IN  IF in_completed_log = {}
                                    THEN /\ mpc' = "done"
                                         /\ UNCHANGED <<affected, response>>
                                    ELSE \E answer \in Answers :
                                       /\ response' = answer
                                       /\ IF Confirms(answer)
                                          THEN /\ affected' = in_completed_log
                                               /\ mpc' = "remove"
                                          ELSE /\ mpc' = "done"
                                               /\ UNCHANGED affected
    /\ UNCHANGED <<confVars, start, end, delta, curr, yielded, gpc, listVars,
                   verifVars, autoVars, s3Vars, purgeVars, lookupVars,
                   all_trash_recordings, start_time, from_date, to_date,
                   cancelled, completed_log, completed_log_lock, failed_log,
                   taskVars, histVars, runVars, scan, fully_verified, report,
                   rewrote>>

\* remove_from_completed_log: with completed_log_lock:
RemoveAcquire ==
    /\ mpc = "remove"
    /\ completed_log_lock = Free
    /\ completed_log_lock' = MainThread
    /\ mpc' = "rm_set"
    /\ UNCHANGED <<confVars, deltaVars, scanVars, cancelled,
                   COMPLETED_MEETING_IDS, completed_log, failed_log,
                   taskVars, histVars, runVars, affected>>

\* remove_from_completed_log: the uuids are removed from the set.
RemoveFromSet ==
    /\ mpc = "rm_set"
    /\ COMPLETED_MEETING_IDS' = Removed(COMPLETED_MEETING_IDS, affected)
    /\ mpc' = "rm_rewrite"
    /\ UNCHANGED <<confVars, deltaVars, scanVars, cancelled,
                   completed_log, completed_log_lock, failed_log,
                   taskVars, histVars, runVars, affected>>

\* remove_from_completed_log: the file is rewritten from the set and the
\* lock released; an exception leaves the with block and returns False.
RemoveRewrite ==
    /\ mpc = "rm_rewrite"
    /\ \E o \in Orders(COMPLETED_MEETING_IDS) :
          /\ completed_log' \in RewriteResults(completed_log, o)
          /\ rewrote' = IF completed_log' = WriteLines(o) THEN "ok" ELSE "failed"
    /\ completed_log_lock' = Free
    /\ mpc' = "done"
    /\ UNCHANGED <<confVars, deltaVars, cancelled, COMPLETED_MEETING_IDS,
                   failed_log, taskVars, histVars, runVars, affected, scan,
                   fully_verified, report, response, restored_uuids,
                   failed_uuids, restore_responses>>

Next ==
    \/ \E t \in Tasks : StartRecording(t)
    \/ \E t \in Tasks : ProcessFile(t)
    \/ \E t \in Tasks : NextFile(t)
    \/ \E t \in Tasks : SaveAcquire(t)
    \/ \E t \in Tasks : SaveWrite(t)
    \/ \E t \in Tasks : SaveAdd(t)
    \/ \E t \in Tasks : DeleteFromZoom(t)
    \/ \E t \in Tasks : Collect(t)
    \/ NextRun
    \/ VerifyCompletedDownloads
    \/ AutoFixRemove
    \/ AutoFixRewrite
    \/ DeleteVerifiedRecordings
    \/ RestoreDeletedWorkflow
    \/ RemoveAcquire
    \/ RemoveFromSet
    \/ RemoveRewrite

Spec == Init /\ [][Next]_vars

\* Synchronisation runs with the completion ledger disabled, over a ledger
\* file that earlier runs may have left with a line.
InitDisabledLedger ==
    /\ InitProgram
    /\ mode = "sync"
    /\ ~USE_COMPLETED_LOG
    /\ \E S \in SUBSET Uuids :
          /\ Cardinality(S) <= 1
          /\ completed_log \in {WriteLines(o) : o \in Orders(S)}
    /\ TrashIdle

\* save_completed_meeting_id returns at once: no worker takes the lock.
NextDisabledLedger ==
    \/ \E t \in Tasks : StartRecording(t)
    \/ \E t \in Tasks : ProcessFile(t)
    \/ \E t \in Tasks : NextFile(t)
    \/ \E t \in Tasks : DeleteFromZoom(t)
    \/ \E t \in Tasks : Collect(t)
    \/ NextRun

SpecDisabledLedger == InitDisabledLedger /\ [][NextDisabledLedger]_vars

\* restore_deleted_workflow alone, over trash listings of recordings with
\* any start_time and any date range, and a ledger of one line at most. A
\* recording the listings did not return has no start_time that is read.
StartTimes == Days \cup {NoDate}

InitRestore ==
    /\ InitProgram
    /\ mode = "restore"
    /\ USE_COMPLETED_LOG
    /\ storage = "local"
    /\ VERIFY_ON_DOWNLOAD
    /\ VERIFY_ON_UPLOAD
    /\ ~DELETE_FROM_ZOOM
    /\ \E S \in SUBSET Uuids :
          /\ Cardinality(S) <= 1
          /\ completed_log \in {WriteLines(o) : o \in Orders(S)}
    /\ all_trash_recordings \in SUBSET Uuids
    /\ start_time \in [Uuids -> StartTimes]
    /\ \A u \in Uuids \ all_trash_recordings : start_time[u] = 0
    /\ from_date \in Days
    /\ to_date \in Days
    /\ restore_response = "none"

NextRestore ==
    \/ RestoreDeletedWorkflow
    \/ RemoveAcquire
    \/ RemoveFromSet
    \/ RemoveRewrite

SpecRestore == InitRestore /\ [][NextRestore]_vars

\* One synchronisation run during which SIGINT may arrive.
InitCancel == Init /\ mode = "sync"

NextCancel ==
    \/ \E t \in Tasks : StartRecording(t)
    \/ \E t \in Tasks : ProcessFile(t)
    \/ \E t \in Tasks : NextFile(t)
    \/ \E t \in Tasks : SaveAcquire(t)
    \/ \E t \in Tasks : SaveWrite(t)
    \/ \E t \in Tasks : SaveAdd(t)
    \/ \E t \in Tasks : DeleteFromZoom(t)
    \/ \E t \in Tasks : Collect(t)
    \/ handle_graceful_shutdown

SpecCancel == InitCancel /\ [][NextCancel]_vars

\* --------------------------------------------------------------- properties
\* C1: all-or-nothing on a download failure. A processing in which some
\* file's download failed (returned False or raised) or whose local size
\* check reported a mismatch returns False and records nothing; a uuid that
\* was not in the ledger when the run started and no processing of which got
\* through all its downloads is in neither the in-memory set nor the file;
\* and in the following run every file of such a recording is attempted again.
C1_AllOrNothing ==
    mode = "sync" =>
       /\ \A t \in Tasks :
             (pc[t] = "done" /\ events[t] \cap DownloadFailures # {})
                => result[t] = "False" /\ ~saved[t]
       /\ \A u \in Uuids :
             (u \notin LoadedIds(logAtStart) /\ u \notin cleanDl)
                => /\ u \notin COMPLETED_MEETING_IDS
                   /\ u \notin LoadedIds(completed_log)
       /\ (run > 1 /\ RunDrained) =>
             \A f \in CatalogFiles : f[1] \in failedPrev => f \in downloaded

\* A second run has drained in which both files of x, whose download failed
\* in the first run, were attempted again and failed again.
C1_Witness ==
    /\ mode = "sync" /\ USE_COMPLETED_LOG
    /\ run = 2 /\ RunDrained
    /\ <<"x">> \in failedPrev
    /\ {<<<<"x">>, 1>>, <<<<"x">>, 2>>} \subseteq downloaded
    /\ <<"x">> \notin cleanDl
    /\ <<"x">> \notin LoadedIds(completed_log)

\* C2: when the backend's upload_file returns False for a file, the
\* processing returns False and does not record the recording as completed.
C2_UploadFailureNotComplete ==
    \A t \in Tasks :
       (pc[t] = "done" /\ "upfalse" \in events[t])
          => result[t] = "False" /\ ~saved[t]

\* C3: when the size check after an upload reports a mismatch for a
\* size-bearing file, the processing returns False and does not record the
\* recording as completed.
C3_UploadMismatchNotComplete ==
    \A t \in Tasks :
       (pc[t] = "done" /\ "rvmismatch" \in events[t])
          => result[t] = "False" /\ ~saved[t]

\* C4: idempotent resumption. With the ledger enabled, a recording whose uuid
\* was in the ledger when the run started is skipped: its processing returns
\* True having downloaded, uploaded, appended and deleted nothing.
C4_IdempotentResumption ==
    (mode = "sync" /\ USE_COMPLETED_LOG) =>
       \A t \in Tasks :
          recordings[t] \in LoadedIds(logAtStart) =>
             /\ pc[t] \in {"queued", "done", "collected"}
             /\ pc[t] = "done" => result[t] = "True"
             /\ attempted[t] = {} /\ events[t] = {}
             /\ ~saved[t] /\ ~zoom_deleted[t]
             /\ \A f \in downloaded : f[1] # recordings[t]
             /\ LineCount(completed_log, recordings[t])
                  = LineCount(logAtStart, recordings[t])

\* A processing of a recording recorded by the previous run has returned.
C4_Witness ==
    /\ mode = "sync" /\ USE_COMPLETED_LOG /\ run = 2
    /\ \E t \in Tasks :
          /\ recordings[t] \in LoadedIds(logAtStart)
          /\ pc[t] = "done" /\ result[t] = "True"
          /\ recordings[t] \in COMPLETED_MEETING_IDS

\* C5: at most one ledger append per uuid in a run, whatever the listing and
\* the interleaving of the workers (an append follows the transfer of all the
\* recording's files, so two appends are two transfers).
C5_AtMostOnce ==
    (mode = "sync" /\ USE_COMPLETED_LOG) =>
       \A u \in Uuids :
          LineCount(completed_log, u) <= LineCount(logAtStart, u) + 1

\* C6: every step that changes the ledger - the in-memory set or the file -
\* other than the load is taken with completed_log_lock held.
C6_MutationsHoldLock ==
    [][((COMPLETED_MEETING_IDS' # COMPLETED_MEETING_IDS
           \/ completed_log' # completed_log)
        /\ mpc # "start" /\ run' = run)
          => completed_log_lock # Free]_vars

\* C7: ledger convergence. Whenever the ledger is loaded and no mutation is
\* under way, the ids read back from the file are the in-memory set - also
\* after a mutation whose file write failed.
C7_LedgerConverges ==
    (USE_COMPLETED_LOG /\ completed_log_lock = Free
       /\ mpc \in {"off", "autofix", "remove", "done"})
      => LoadedIds(completed_log) = COMPLETED_MEETING_IDS

\* C8: a download that fails has been attempted max_retries times.
C8_DownloadRetried ==
    \A t \in Tasks :
       (pc[t] = "file_done" /\ ctx[t].dl # "ok")
          => ctx[t].attempts = max_retries

\* C9: when the first file of a two-file recording is fine and the download
\* of the second fails, failed-uploads.log has gained exactly one line, for
\* the second file; the processing returns False and appends nothing.
C9_FailedDownloadLogged ==
    \A t \in Tasks :
       (recordings[t] = <<"x">> /\ events[t] = {"dlfail"}) =>
          /\ (pc[t] = "file_done" /\ idx[t] = 2 /\ ctx[t].before
                /\ ctx[t].dl # "ok")
               => failed_log = {<<t, 2>>}
          /\ pc[t] = "done" => result[t] = "False" /\ ~saved[t]

\* C10: with a backend and upload verification on, the local copy of a
\* size-bearing file is removed only when the upload succeeded and the size
\* check reported verified.
C10_CleanupOnlyWhenVerified ==
    \A t \in Tasks :
       (pc[t] = "file_done" /\ storage # "local" /\ VERIFY_ON_UPLOAD
          /\ ExpectedSize(t) > 0 /\ ctx[t].removed)
          => ctx[t].up = "true" /\ ctx[t].rv = "verified"

\* C11: cancellation. Once SIGINT has arrived during a run, no recording that
\* is still waiting in the pool is started.
C11_NoStartAfterSigint ==
    [][cancelled =>
          \A t \in Tasks : pc[t] = "queued" => pc'[t] = "queued"]_vars

\* C12: partition coverage. For start < end and a positive delta the pairs
\* per_delta yields are contiguous - the first starts at start, each next one
\* starts where the previous one ended, the last ends at end -, lie in and
\* cover [start, end], and none is longer than delta.
C12_PartitionCoverage ==
    (gpc # "off" /\ start < end) =>
       /\ yielded # <<>> => yielded[1][1] = start
       /\ \A i \in 1..(Len(yielded) - 1) : yielded[i + 1][1] = yielded[i][2]
       /\ \A i \in 1..Len(yielded) :
             /\ yielded[i][1] < yielded[i][2]
             /\ yielded[i][2] - yielded[i][1] <= delta
             /\ start <= yielded[i][1] /\ yielded[i][2] <= end
       /\ gpc = "returned" =>
             /\ yielded # <<>>
             /\ yielded[Len(yielded)][2] = end
             /\ \A d \in start..end :
                   \E i \in 1..Len(yielded) :
                      yielded[i][1] <= d /\ d <= yielded[i][2]

\* The generator has returned after a full step and a clipped one.
C12_Witness ==
    /\ gpc = "returned" /\ start < end
    /\ Len(yielded) = 2
    /\ yielded[1][2] - yielded[1][1] = delta
    /\ yielded[2][2] - yielded[2][1] < delta

\* C13: per_delta yields at most one pair when start = end and none when
\* start > end, and for a positive delta it returns after finitely many
\* pairs: never more than the number of steps of delta that fit in
\* [start, end], the last one clipped.
C13_Terminates ==
    /\ [](gpc # "off" =>
            /\ start = end => Len(yielded) <= 1
            /\ start > end => yielded = <<>>
            /\ start < end => (Len(yielded) - 1) * delta < end - start
            /\ curr = start + Len(yielded) * delta)
    /\ (gpc = "running") ~> (gpc = "returned")

\* The generator has returned without a pair for start > end.
C13_Witness ==
    gpc = "returned" /\ start > end /\ yielded = <<>> /\ curr = start

\* C14: ledger round trip. Whatever uuids the synchronisation runs appended
\* to an initially empty ledger file through save_completed_meeting_id, in
\* whatever order, loading the file into an empty set yields exactly the set
\* of the uuids appended.
C14_LedgerRoundTrip ==
    (mode = "sync" /\ USE_COMPLETED_LOG /\ completed_log_lock = Free) =>
       LoadCompletedMeetingIds(USE_COMPLETED_LOG, {}, completed_log)
         = COMPLETED_MEETING_IDS

\* y was appended, then x.
C14_Witness ==
    /\ mode = "sync" /\ USE_COMPLETED_LOG /\ completed_log_lock = Free
    /\ completed_log = <<"y", "\n", "x", "\n">>
    /\ COMPLETED_MEETING_IDS = {<<"x">>, <<"y">>}
    /\ recordings = <<<<"x">>, <<"y">>>>

\* C15: size-0 exemption. For a file whose expected size is 0 neither the
\* local nor the remote size check is performed, whatever the settings; so
\* a recording all of whose files have no size, and to which nothing else
\* happened (no failed download or upload, no exception, no failed ledger
\* append), is marked complete.
C15_SizeZeroExempt ==
    \A t \in Tasks :
       /\ (pc[t] = "file_done" /\ ExpectedSize(t) = 0)
            => ctx[t].lv = "none" /\ ctx[t].rv = "none"
       /\ (pc[t] = "done" /\ attempted[t] # {} /\ events[t] = {}
             /\ \A i \in attempted[t] : RecordingFiles(recordings[t])[i] = 0)
            => result[t] = "True" /\ (USE_COMPLETED_LOG => saved[t])

\* y, whose one file has no size, went through the download and the upload
\* with both verifications on, and was recorded.
C15_Witness ==
    /\ VERIFY_ON_DOWNLOAD /\ VERIFY_ON_UPLOAD /\ storage = "gdrive"
    /\ USE_COMPLETED_LOG
    /\ \E t \in Tasks :
          /\ recordings[t] = <<"y">> /\ pc[t] = "done" /\ attempted[t] = {1}
          /\ events[t] = {} /\ result[t] = "True" /\ saved[t]
          /\ <<"y">> \in LoadedIds(completed_log)

\* C16: auto-fix removal set. After a confirmed auto-fix the in-memory
\* ledger is the previous ledger minus exactly the uuids with at least one
\* file classified mismatch or missing, and so is the file once the
\* rewrite has succeeded; entries whose files were only verified or error,
\* and entries in the trash or not accessible, remain.
C16_AutoFixRemovalSet ==
    (mode = "verify" /\ response \in {"y", "Y"}
       /\ mpc \in {"af_rewrite", "done"}) =>
       LET previous == LoadedIds(logAtStart)
           corrupted ==
               {u \in previous :
                   \E i \in DOMAIN scan[u].files :
                      scan[u].files[i].status \in {"mismatch", "missing"}}
       IN  /\ COMPLETED_MEETING_IDS = previous \ corrupted
           /\ (mpc = "done" /\ rewrote = "ok")
                => LoadedIds(completed_log) = previous \ corrupted
           /\ \A u \in previous :
                 (\/ scan[u].access \in {"in_trash", "not_accessible"}
                  \/ \A i \in DOMAIN scan[u].files :
                        scan[u].files[i].status \in {"verified", "error"})
                   => u \in COMPLETED_MEETING_IDS

\* The ledger held x and y, one file of x had an error and the other a
\* mismatch, and the confirmed auto-fix left y alone in memory and on file.
C16_Witness ==
    /\ mode = "verify" /\ response = "y" /\ mpc = "done" /\ rewrote = "ok"
    /\ LoadedIds(logAtStart) = {<<"x">>, <<"y">>}
    /\ scan[<<"x">>].access = "active" /\ ~scan[<<"x">>].raised
    /\ scan[<<"x">>].files[1].status = "error"
    /\ scan[<<"x">>].files[2].status = "mismatch"
    /\ COMPLETED_MEETING_IDS = {<<"y">>}
    /\ completed_log = <<"y", "\n">>

\* C17: the purge is never automatic. As long as the operator has not
\* confirmed the auto-fix (no answer yet, or an answer other than y), and
\* whenever the pass found no mismatch and no missing file, the in-memory
\* ledger is what the load read, the file is the one the pass found, and no
\* report has been written.
C17_PurgeNeverAutomatic ==
    (mode = "verify" /\ mpc # "start"
       /\ (\/ response \notin {"y", "Y"}
           \/ \A u \in DOMAIN scan : \A i \in DOMAIN scan[u].files :
                 scan[u].files[i].status \notin {"mismatch", "missing"})) =>
       /\ COMPLETED_MEETING_IDS
            = (IF USE_COMPLETED_LOG THEN LoadedIds(logAtStart) ELSE {})
       /\ completed_log = logAtStart
       /\ ~report

\* The operator answered n to the auto-fix offered for a missing file of x.
C17_Witness ==
    /\ mode = "verify" /\ mpc = "done" /\ response = "n"
    /\ <<"x">> \in DOMAIN scan
    /\ scan[<<"x">>].access = "active"
    /\ scan[<<"x">>].files[1].status = "missing"
    /\ <<"x">> \in COMPLETED_MEETING_IDS
    /\ completed_log = logAtStart

\* C18: a recording is listed as fully verified only if it is active, every
\* one of its size-bearing files was checked and reported verified, and none
\* of its files was reported mismatch, missing or error.
C18_FullyVerified ==
    mode = "verify" =>
       \A u \in fully_verified :
          /\ u \in DOMAIN scan
          /\ scan[u].access = "active" /\ ~scan[u].raised
          /\ DOMAIN scan[u].files = DOMAIN RecordingFiles(u)
          /\ \A i \in DOMAIN RecordingFiles(u) :
                /\ RecordingFiles(u)[i] > 0
                     => scan[u].files[i].status = "verified"
                /\ scan[u].files[i].status
                     \notin {"mismatch", "missing", "error"}

\* Both files of x were reported verified and x is listed.
C18_Witness ==
    /\ mode = "verify" /\ mpc = "done"
    /\ <<"x">> \in fully_verified
    /\ scan[<<"x">>].access = "active"
    /\ Len(scan[<<"x">>].files) = 2
    /\ scan[<<"x">>].files[1].status = "verified"
    /\ scan[<<"x">>].files[2].status = "verified"

\* C19: classification. For a size-bearing file of an active ledger entry
\* the pass over local storage reports verified when the stored size equals
\* the expected size, mismatch when it differs and missing when the file is
\* absent; a file without a size is skipped, whatever the storage, and
\* never classified.
C19_Classification ==
    mode = "verify" =>
       \A u \in DOMAIN scan : \A i \in DOMAIN scan[u].files :
          LET f == scan[u].files[i]
              expected_size == RecordingFiles(u)[i]
          IN  /\ expected_size = 0 => f.status = "skipped"
              /\ (expected_size > 0 /\ storage = "local") =>
                    /\ f.status \in {"verified", "mismatch", "missing", "error"}
                    /\ (f.exists /\ ~f.oserror /\ f.actual = expected_size)
                         => f.status = "verified"
                    /\ (f.exists /\ ~f.oserror /\ f.actual # expected_size)
                         => f.status = "mismatch"
                    /\ ~f.exists => f.status = "missing"

\* A pass over local storage found the first file of x one byte short and
\* the second absent, and skipped the file of y.
C19_Witness ==
    /\ mode = "verify" /\ storage = "local"
    /\ {<<"x">>, <<"y">>} \subseteq DOMAIN scan
    /\ scan[<<"x">>].access = "active"
    /\ scan[<<"x">>].files[1].status = "mismatch"
    /\ scan[<<"x">>].files[1].actual = 999
    /\ scan[<<"x">>].files[2].status = "missing"
    /\ scan[<<"y">>].access = "active"
    /\ scan[<<"y">>].files[1].status = "skipped"

\* C20: restore reconciliation. The uuids removed from the ledger are
\* exactly those that were restored, were in the ledger, and whose removal
\* the operator confirmed: in memory, and on file once the rewrite has
\* succeeded. The uuids whose restore failed and all other entries remain;
\* as long as the operator has not confirmed, the ledger is unchanged.
C20_RestoreReconciliation ==
    mode = "restore" =>
       LET previous == IF USE_COMPLETED_LOG THEN LoadedIds(logAtStart) ELSE {}
           removable == restored_uuids \cap previous
       IN  /\ restored_uuids \cap failed_uuids = {}
           /\ response \notin {"y", "Y"} =>
                 /\ completed_log = logAtStart
                 /\ COMPLETED_MEETING_IDS \in {{}, previous}
                 /\ mpc = "done" /\ restored_uuids # {}
                      => COMPLETED_MEETING_IDS = previous
           /\ (response \in {"y", "Y"} /\ mpc = "done") =>
                 /\ COMPLETED_MEETING_IDS = previous \ removable
                 /\ rewrote = "ok"
                      => LoadedIds(completed_log) = previous \ removable
                 /\ (previous \cap failed_uuids) \subseteq COMPLETED_MEETING_IDS

\* x was restored and the restore of y failed; both were in the ledger with
\* z, and the confirmed removal took x alone.
C20_Witness ==
    /\ mode = "restore" /\ mpc = "done" /\ response = "y" /\ rewrote = "ok"
    /\ restored_uuids = {<<"x">>} /\ failed_uuids = {<<"y">>}
    /\ LoadedIds(logAtStart) = {<<"x">>, <<"y">>, <<"z">>}
    /\ COMPLETED_MEETING_IDS = {<<"y">>, <<"z">>}
    /\ LoadedIds(completed_log) = {<<"y">>, <<"z">>}

\* C21: source deletion ordering. The deletion of a recording from Zoom is
\* requested only when the deletion is configured, only after every file of
\* the recording was processed successfully and, with the ledger enabled,
\* only after its uuid was written to the ledger; never for a recording that
\* failed or was skipped.
C21_DeletionOrdering ==
    \A t \in Tasks :
       zoom_deleted[t] =>
          /\ DELETE_FROM_ZOOM
          /\ attempted[t] = DOMAIN RecordingFiles(recordings[t])
          /\ events[t] = {}
          /\ USE_COMPLETED_LOG =>
                /\ saved[t]
                /\ recordings[t] \in COMPLETED_MEETING_IDS
                /\ recordings[t] \in LoadedIds(completed_log)

\* C22: a failed deletion does not revoke the completion. When the deletion
\* request returned False - an exception, or a status other than 204 and
\* 404 - the processing still returns True and the uuid it recorded stays in
\* the ledger, in memory and on file.
C22_FailedDeletionKeepsCompletion ==
    \A t \in Tasks :
       (pc[t] = "done" /\ zoom_deleted[t] /\ ~deletion[t].returned) =>
          /\ result[t] = "True"
          /\ USE_COMPLETED_LOG =>
                /\ saved[t]
                /\ recordings[t] \in COMPLETED_MEETING_IDS
                /\ recordings[t] \in LoadedIds(completed_log)

\* The deletion of x was answered with status 500 after x was recorded.
C22_Witness ==
    /\ USE_COMPLETED_LOG /\ DELETE_FROM_ZOOM
    /\ \E t \in Tasks :
          /\ recordings[t] = <<"x">> /\ pc[t] = "done" /\ zoom_deleted[t]
          /\ deletion[t].status_code = 500 /\ ~deletion[t].returned
          /\ result[t] = "True" /\ saved[t]
          /\ <<"x">> \in LoadedIds(completed_log)

\* C23: delete_recording_from_zoom returns True for a 204 and for a 404
\* response, and False for every other status and for an exception, which
\* never reaches its caller.
C23_DeleteIdempotentOnAbsence ==
    \A t \in Tasks :
       zoom_deleted[t] =>
          /\ deletion[t].returned
               = (~deletion[t].raised /\ deletion[t].status_code \in {204, 404})
          /\ "exception" \notin events[t]
          /\ pc[t] = "done"

\* A deletion was answered with 404 and returned True.
C23_Witness ==
    \E t \in Tasks :
       /\ zoom_deleted[t] /\ pc[t] = "done"
       /\ ~deletion[t].raised /\ deletion[t].status_code = 404
       /\ deletion[t].returned

\* C24: restore_recording_from_zoom returns True for a 204 response alone:
\* a uuid counts as restored exactly when its request was answered with
\* 204, and one answered with 404, with another status or by an exception
\* counts as failed and is never offered for removal from the ledger.
C24_RestoreOnly204 ==
    mode = "restore" =>
       /\ DOMAIN restore_responses = restored_uuids \cup failed_uuids
       /\ \A u \in DOMAIN restore_responses :
             u \in restored_uuids
               <=> (~restore_responses[u].raised
                      /\ restore_responses[u].status_code = 204)
       /\ \A u \in DOMAIN restore_responses :
             (restore_responses[u].raised
                \/ restore_responses[u].status_code # 204)
               => u \in failed_uuids /\ u \notin affected

\* The restore of x was answered with 204, that of y with 404 and that of z
\* by an exception.
C24_Witness ==
    /\ mode = "restore" /\ mpc = "done"
    /\ DOMAIN restore_responses = Uuids
    /\ restore_responses[<<"x">>].status_code = 204
    /\ restore_responses[<<"y">>].status_code = 404
    /\ restore_responses[<<"z">>].raised
    /\ restored_uuids = {<<"x">>}
    /\ failed_uuids = {<<"y">>, <<"z">>}

\* C25: catalog deduplication. The list list_recordings builds holds each
\* recording uuid at most once, also when a recording's date is the boundary
\* shared by two adjacent sub-intervals.
C25_ListingDeduplicated ==
    user \in Users =>
       \A i, j \in DOMAIN recordings :
          i # j => recordings[i] # recordings[j]

\* C26: a failed catalog query of one user does not abort the batch: when
\* main has ended, list_recordings was called for every user.
C26_CatalogFailureSkipsUser ==
    gpc \in {"returned", "crashed"} => visited = Users

\* C27: every submitted recording yields exactly one outcome, true or false,
\* and each outcome is counted once: at any time completed + failed is the
\* number of outcomes collected, and when the pool has drained it is the
\* number of recordings listed; a failure leaves the other recordings to be
\* processed.
C27_OneOutcomePerRecording ==
    mode = "sync" =>
       /\ \A t \in Tasks : pc[t] = "done" => result[t] \in {"True", "False"}
       /\ completed + failed
             = Cardinality({t \in Tasks : pc[t] = "collected"})
       /\ RunDrained => completed + failed = Len(recordings)

C27_Witness ==
    /\ mode = "sync"
    /\ Len(recordings) = 2
    /\ RunDrained
    /\ failed = 1
    /\ completed = 1
    /\ recordings[1] = <<"z">>

\* C28: no lost update in the verification log. With the log configured, a
\* worker between its read of the file and the end of its write holds the
\* verification lock, and the document holds the entry of every call that
\* has returned, under the call's recording uuid.
C28_NoLostVerificationEntry ==
    VERIFICATION_LOG =>
       /\ \A w \in VWorkers :
             vpc[w] \in {"locked", "merged", "saved"}
                => verification_log_lock = w
       /\ \A call \in vlogged :
             /\ verification_file.state = "ok"
             /\ call.uuid \in DOMAIN verification_file.doc
             /\ \E i \in DOMAIN verification_file.doc[call.uuid] :
                   verification_file.doc[call.uuid][i]
                      = [file_id |-> call.file_id, n |-> call.n]

C28_Witness ==
    /\ VERIFICATION_LOG
    /\ \E call \in vlogged :
          \E w1, w2 \in VWorkers :
             /\ call.worker \notin {w1, w2}
             /\ vpc[w1] = "saved"
             /\ vcall[w1].uuid = call.uuid
             /\ vpc[w2] = "waiting"

\* C29: a recording without files is a hard failure. The step that takes
\* such a recording (not already in the ledger) from the queue ends it with
\* the result False, with no file attempted and the ledger as it was; it is
\* counted as failed and never taken up again in the run.
C29_NoFilesIsHardFailure ==
    [][\A t \in Tasks :
          (/\ mode = "sync"
           /\ run' = run
           /\ recordings' = recordings
           /\ RecordingFiles(recordings[t]) = <<>>
           /\ ~AlreadyCompleted(USE_COMPLETED_LOG, COMPLETED_MEETING_IDS,
                                recordings[t]))
          => /\ (pc[t] = "queued" /\ pc'[t] # "queued")
                   => /\ pc'[t] = "done"
                      /\ result'[t] = "False"
                      /\ attempted'[t] = {}
                      /\ events'[t] = {}
                      /\ ~saved'[t]
                      /\ ~zoom_deleted'[t]
                      /\ UNCHANGED ledgerVars
             /\ pc[t] = "done"
                   => /\ pc'[t] \in {"done", "collected"}
                      /\ pc'[t] = "collected" /\ ~cancelled
                            => failed' = failed + 1 /\ UNCHANGED completed
             /\ pc[t] = "collected" => pc'[t] = "collected"]_vars

C29_Witness ==
    /\ mode = "sync"
    /\ \E t \in Tasks :
          /\ RecordingFiles(recordings[t]) = <<>>
          /\ ~AlreadyCompleted(USE_COMPLETED_LOG, COMPLETED_MEETING_IDS,
                               recordings[t])
          /\ pc[t] = "collected"
          /\ failed >= 1
          /\ recordings[t] \notin LoadedIds(completed_log)

\* C30: backend independence. With S3 as with Google Drive a recording is
\* reported failed only when a download, a local size check, an upload or an
\* upload size check of one of its files failed: a recording whose files
\* were all downloaded and checked, and none of which the backend refused,
\* is marked complete.
C30_S3LikeGoogleDrive ==
    \A t \in Tasks :
       (/\ mode = "sync"
        /\ storage = "s3"
        /\ pc[t] = "done"
        /\ attempted[t] = DOMAIN RecordingFiles(recordings[t])
        /\ attempted[t] # {}
        /\ events[t] \cap {"dlfail", "lmismatch", "upfalse", "rvmismatch",
                            "savefail"} = {})
       => result[t] = "True"

\* C31: the last-run marker. With the auto date range enabled a run reads the
\* marker once, before anything is listed, and writes it at most once, at
\* its clean end; until then, and for good in a run left by an exception or
\* by a signal, the marker is what it was when the run started.
C31_MarkerReadOnceWrittenAtCleanEnd ==
    (AUTO_DATE_RANGE /\ apc # "off") =>
       /\ marker_reads = (IF apc = "started" THEN 0 ELSE 1)
       /\ marker_writes <= 1
       /\ marker_writes = 1 => apc = "ended" /\ ending = "through"
       /\ marker_writes = 0 => last_run_log = marker_before
       /\ ending \in {"abort", "signal"} => last_run_log = marker_before

C31_Witness ==
    /\ AUTO_DATE_RANGE
    /\ aruns = 2
    /\ ending = "signal"
    /\ marker_before = [state |-> "ok", day |-> 1]
    /\ today = 2
    /\ processed # {}

\* C32: re-attempt under the auto date range. A recording that failed in one
\* run, and so is not in the ledger, lies inside the date range of the next
\* run.
C32_FailedRecordingInNextWindow ==
    (AUTO_DATE_RANGE /\ apc = "ranged") =>
       failed_before \subseteq InWindow(RECORDING_START_DATE, RECORDING_END_DATE, today)

\* C33: no data loss on source deletion. With both size checks enabled, when
\* process_recording leaves its loop over the files to call the deletion of
\* the recording, the file it processed last, if it has a size, has a
\* confirmed copy: the backend's size check returned verified, or the local
\* copy passed its check and was not removed.
C33_DeletionLeavesConfirmedCopy ==
    [][\A t \in Tasks :
          (/\ mode = "sync"
           /\ VERIFY_ON_DOWNLOAD
           /\ VERIFY_ON_UPLOAD
           /\ DELETE_FROM_ZOOM
           /\ pc[t] = "file_done"
           /\ pc'[t] = "delete"
           /\ ExpectedSize(t) > 0)
          => \/ ctx[t].rv = "verified"
             \/ ctx[t].lv = "passed" /\ ~ctx[t].removed]_vars

C35_S3RetryBounded ==
    /\ Len(s3_trace) <= s3_max_retries
    /\ \A i \in DOMAIN s3_trace : s3_trace[i] = "ok" => i = Len(s3_trace)
    /\ \A i \in DOMAIN s3_sleeps : s3_sleeps[i] = retry_delay
    /\ s3pc = "attempt" => Len(s3_sleeps) = Len(s3_trace)
    /\ (s3pc = "returned" /\ s3_trace # <<>>) =>
          /\ Len(s3_sleeps) = Len(s3_trace) - 1
          /\ IF s3_trace[Len(s3_trace)] = "ok"
             THEN s3_returned = "True" /\ s3_lines = 0
             ELSE /\ s3_returned = "False"
                  /\ s3_lines = 1
                  /\ Len(s3_trace) = s3_max_retries
    /\ s3_trace = <<>> => s3_lines = 0

\* Two attempts failed and the third went through.
C35_Witness ==
    /\ s3pc = "returned"
    /\ s3_trace = <<"ClientError", "Exception", "ok">>
    /\ s3_sleeps = <<2, 2>>
    /\ s3_returned = "True"

\* C36: delete-after-verify targets only fully verified recordings. In the
\* verification mode delete_recording_from_zoom is called only for recordings
\* the pass just made listed as fully verified, only with --delete-verified
\* and after the operator confirmed; never for a recording in the trash or
\* not accessible, nor for one with a mismatch, missing or error file.
C36_DeleteVerifiedOnlyFullyVerified ==
    /\ mode # "verify" => purge_called = {}
    /\ mode = "verify" =>
          /\ purge_called # {} =>
                delete_verified /\ purge_response \in {"y", "Y"}
                   /\ mpc = "ended"
          /\ purge_deleted \subseteq purge_called
          /\ \A u \in purge_called :
                /\ u \in fully_verified
                /\ u \in DOMAIN scan
                /\ scan[u].access = "active" /\ ~scan[u].raised
                /\ \A i \in DOMAIN scan[u].files :
                      scan[u].files[i].status
                         \notin {"mismatch", "missing", "error"}

\* Both files of x were verified and x was deleted from Zoom, while y was in
\* the trash and left alone.
C36_Witness ==
    /\ mode = "verify" /\ mpc = "ended"
    /\ purge_called = {<<"x">>}
    /\ purge_deleted = {<<"x">>}
    /\ <<"y">> \in DOMAIN scan
    /\ scan[<<"y">>].access # "active"

\* What the queries answered so far have contributed to the list.
RECURSIVE C37_Contributed(_)
C37_Contributed(i) ==
    IF i = 0 THEN <<>>
    ELSE C37_Contributed(i - 1)
           \o (IF query_answers[i] = "meetings"
               THEN Meetings(user, yielded[i][1], yielded[i][2])
               ELSE <<>>)

\* C37: a missing collection key is an empty window. list_recordings' list
\* is made of the recordings of the sub-intervals whose response had the key
\* meetings, in order; a response without it adds nothing and does not end
\* the call, which fails only on a query that raised.
C37_MissingKeyIsEmptyWindow ==
    user \in Users =>
       /\ Len(query_answers) = Len(yielded)
       /\ recordings = C37_Contributed(Len(query_answers))
       /\ \A i \in DOMAIN query_answers :
             query_answers[i] = "no_meetings" => (i < Len(query_answers) \/ gpc # "crashed")

\* The first window's response had no key, the second one's had it and a
\* recording in it, and the call returned.
C37_Witness ==
    /\ user = 2
    /\ gpc = "returned"
    /\ query_answers = <<"no_meetings", "meetings">>
    /\ recordings = <<<<"z">>>>

\* C38: restore_recording_from_zoom is called exactly for the recordings of
\* the trash whose start date d parses and has from_date <= d <= to_date,
\* both ends included, and for none unless the operator answered y or Y.
C38_RestoreCandidatesInRange ==
    (mode = "restore" /\ mpc # "start") =>
        DOMAIN restore_responses =
            IF restore_response \in {"y", "Y"}
            THEN {u \in all_trash_recordings :
                     /\ start_time[u] \in Days
                     /\ from_date <= start_time[u]
                     /\ start_time[u] <= to_date}
            ELSE {}

\* A confirmed restore over a range of several days: a recording of the
\* range's last day was restored, one without a date was left in the trash.
C38_Witness ==
    /\ mode = "restore"
    /\ mpc # "start"
    /\ from_date < to_date
    /\ restore_response \in {"y", "Y"}
    /\ \E u \in DOMAIN restore_responses : start_time[u] = to_date
    /\ \E u \in all_trash_recordings : start_time[u] = NoDate

\* C39: with the completion ledger disabled the in-memory set stays empty
\* whatever the ledger file holds, no recording is skipped (a recording that
\* returned True went through its files), a recording all of whose files
\* succeeded returns True, and no worker enters save_completed_meeting_id's
\* locked section: the set and the file are as they were when the run began.
C39_DisabledLedgerIsInert ==
    (mode = "sync" /\ ~USE_COMPLETED_LOG) =>
        /\ COMPLETED_MEETING_IDS = {}
        /\ completed_log = logAtStart
        /\ \A t \in Tasks :
              /\ pc[t] \notin {"save", "save_write", "save_add"}
              /\ ~saved[t]
              /\ pc[t] = "done" =>
                    (result[t] = "True" <=>
                        /\ idx[t] >= 1
                        /\ idx[t] = Len(RecordingFiles(recordings[t]))
                        /\ all_files_success[t])

\* A recording whose uuid is in the ledger file was processed file by file
\* and returned True, the ledger being disabled.
C39_Witness ==
    /\ mode = "sync"
    /\ ~USE_COMPLETED_LOG
    /\ \E t \in Tasks :
          /\ recordings[t] \in LoadedIds(completed_log)
          /\ pc[t] = "done"
          /\ result[t] = "True"
          /\ idx[t] = Len(RecordingFiles(recordings[t]))
          /\ attempted[t] # {}

\* C40: when build_active_recordings_lookup has returned or has let a
\* query's exception through, RECORDING_START_DATE and RECORDING_END_DATE
\* are what they were when it was called.
C40_LookupRestoresDateRange ==
    lpc \in {"returned", "raised"} =>
        <<RECORDING_START_DATE, RECORDING_END_DATE>> = range_before

\* A query raised inside a lookup over a range that differs from the global
\* one in both dates.
C40_Witness ==
    /\ lpc = "raised"
    /\ lookup_from # range_before[1]
    /\ lookup_to # range_before[2]
    /\ luser = 2

====
